---- MODULE Spec2Model ----
(***************************************************************************)
(* Model of the whatsapp-companion flow state machine and its scoring /    *)
(* token / pattern engine.  Persistent tables are sequences of rows (a row *)
(* id is its position; rows are never deleted), in-process maps are        *)
(* functions, and every asynchronous handler is a process whose steps are  *)
(* the database statements it awaits.                                      *)
(***************************************************************************)
EXTENDS Integers, Sequences, FiniteSets, TLC

\* ------------------------------------------------------------------ bounds
MaxCalls == 3        \* token-ledger calls started in one behaviour
MaxDay == 7          \* last calendar day the clock reaches
MaxMsgs == 2         \* messages in one behaviour whose handler reaches the database
MaxLogs == 5         \* daily logs in the window a shame escalation is determined from

\* --------------------------------------------------------------- constants
StartingTokens == 7
MinorAmount == 1
MajorAmount == 2
DaysPerWeek == 7
FirstDay == DaysPerWeek - 1   \* calendar day at start: a Sunday (day 0 is a Monday)

User == {"u1", "u2"}
TokProc == {"p1", "p2"}
None == "none"

Req == {"r1", "r2"}

VARIABLES
  users,           \* users table: user id -> row (exists = FALSE: no row yet)
  today,           \* calendar day (CURRENT_DATE and the process clock)
  last,            \* the last call that returned: operation, user, replies
  tokens,          \* tokens table: sequence of TokenRecord rows
  tp,              \* token-ledger callers: process -> position and locals
  calls,           \* number of token-ledger calls started
  contracts,       \* contracts table: sequence of Contract rows
  onboardingData,  \* in-process map user id -> {goal, binaryActions}
  rq,              \* webhook requests: request -> position and locals
  dailyLogs,       \* daily_logs table: sequence of DailyLog rows
  patterns,        \* patterns table: sequence of Pattern rows
  nightlyLockState,\* in-process map user id -> session object (0: no entry)
  sessions,        \* the NightlyLockState objects, by object identity
  received,        \* number of messages whose handler has reached the database
  scheduledJobs,   \* in-process map user id -> the user's ScheduledJob list (Null: no entry)
  cronTasks,       \* the tasks cron.schedule has created, by object identity
  wh,              \* webhook route: request -> position, locals and HTTP response
  messages,        \* messages table: sequence of Message rows
  outbox,          \* messages the transport has accepted: sequence of {to, body}
  photos           \* photos table: sequence of Photo rows in created_at order

tokVars == <<tokens, tp, calls>>
flowVars == <<contracts, onboardingData, rq>>
dayVars == <<dailyLogs, patterns, nightlyLockState, sessions, received>>
schedVars == <<scheduledJobs, cronTasks>>
hookVars == <<wh, messages, outbox>>
vars == <<users, today, last, tokVars, flowVars, dayVars, schedVars, hookVars, photos>>

\* ----------------------------------------------------------------- helpers
Max(a, b) == IF a >= b THEN a ELSE b

RECURSIVE SumSeq(_)
SumSeq(s) == IF s = <<>> THEN 0 ELSE Head(s) + SumSeq(Tail(s))

\* ----------------------------------------------------------------- strings
\* A string is a sequence of one-character strings.
Lo == <<"a","b","c","d","e","f","g","h","i","j","k","l","m",
        "n","o","p","q","r","s","t","u","v","w","x","y","z">>
Up == <<"A","B","C","D","E","F","G","H","I","J","K","L","M",
        "N","O","P","Q","R","S","T","U","V","W","X","Y","Z">>
Digit == {"0","1","2","3","4","5","6","7","8","9"}

\* String.prototype.toLowerCase / toUpperCase
LowerChar(c) == IF \E k \in 1..Len(Up) : Up[k] = c
                  THEN Lo[CHOOSE k \in 1..Len(Up) : Up[k] = c] ELSE c
UpperChar(c) == IF \E k \in 1..Len(Lo) : Lo[k] = c
                  THEN Up[CHOOSE k \in 1..Len(Lo) : Lo[k] = c] ELSE c
ToLowerCase(s) == [i \in 1..Len(s) |-> LowerChar(s[i])]
ToUpperCase(s) == [i \in 1..Len(s) |-> UpperChar(s[i])]

\* the regex class \s and the characters String.prototype.trim removes
IsSpace(c) == c \in {" ", "\n", "\t"}

RECURSIVE TrimStart(_)
TrimStart(s) == IF s # <<>> /\ IsSpace(Head(s)) THEN TrimStart(Tail(s)) ELSE s
RECURSIVE TrimEnd(_)
TrimEnd(s) == IF s # <<>> /\ IsSpace(s[Len(s)]) THEN TrimEnd(SubSeq(s, 1, Len(s) - 1)) ELSE s
Trim(s) == TrimEnd(TrimStart(s))

\* String.prototype.includes
Includes(s, t) == \E i \in 1..(Len(s) - Len(t) + 1) : SubSeq(s, i, i + Len(t) - 1) = t

\* index of the first character of s satisfying the class, 0 when there is none
FirstSpace(s) == IF \E i \in 1..Len(s) : IsSpace(s[i])
                   THEN CHOOSE i \in 1..Len(s) : IsSpace(s[i]) /\ \A j \in 1..(i - 1) : ~IsSpace(s[j])
                   ELSE 0

\* String.prototype.split(sep) for a one-character separator
RECURSIVE Split(_, _)
Split(s, sep) ==
  IF \E i \in 1..Len(s) : s[i] = sep
    THEN LET i == CHOOSE i \in 1..Len(s) : s[i] = sep /\ \A j \in 1..(i - 1) : s[j] # sep
         IN  <<SubSeq(s, 1, i - 1)>> \o Split(SubSeq(s, i + 1, Len(s)), sep)
    ELSE <<s>>

\* ------------------------------------------------------ regular expressions
\* A backtracking matcher with the priority order of the JavaScript engine.
\* A pattern is a tree of nodes; RM gives every way the node can match at
\* position i, most preferred first, with the capture groups set so far.
NoCaps == <<<<0, 0>>, <<0, 0>>>>
RxSet(cs) == [t |-> "set", cs |-> cs]
RxSeq(rs) == [t |-> "seq", rs |-> rs]
RxAlt(rs) == [t |-> "alt", rs |-> rs]
RxRep(r, min, max, greedy) == [t |-> "rep", r |-> r, min |-> min, max |-> max, greedy |-> greedy]
RxGrp(n, r) == [t |-> "grp", n |-> n, r |-> r]
\* a literal string, matched with the i flag
RxLit(str) == RxSeq([k \in 1..Len(str) |-> RxSet({LowerChar(str[k]), UpperChar(str[k])})])
RxOpt(r) == RxRep(r, 0, 1, TRUE)
RxStar(r) == RxRep(r, 0, -1, TRUE)
RxDigit == RxSet(Digit)
RxSpace == RxSet({" ", "\n", "\t"})

RECURSIVE RM(_, _, _, _), RMEach(_, _, _), RMAlt(_, _, _, _)
RM(re, s, i, caps) ==
  LET here == <<[pos |-> i, caps |-> caps]>>
  IN  CASE re.t = "set" -> IF i <= Len(s) /\ s[i] \in re.cs
                             THEN <<[pos |-> i + 1, caps |-> caps]>> ELSE <<>>
        [] re.t = "any" -> IF i <= Len(s) /\ s[i] # "\n"
                             THEN <<[pos |-> i + 1, caps |-> caps]>> ELSE <<>>
        [] re.t = "eol" -> IF i = Len(s) + 1 THEN here ELSE <<>>
        [] re.t = "seq" -> IF re.rs = <<>> THEN here
                           ELSE RMEach(RM(Head(re.rs), s, i, caps), RxSeq(Tail(re.rs)), s)
        [] re.t = "alt" -> RMAlt(re.rs, s, i, caps)
        [] re.t = "grp" -> LET ms == RM(re.r, s, i, caps)
                           IN  [k \in 1..Len(ms) |->
                                  [pos |-> ms[k].pos,
                                   caps |-> [ms[k].caps EXCEPT ![re.n] = <<i, ms[k].pos>>]]]
        [] re.t = "rep" ->
             LET once == SelectSeq(RM(re.r, s, i, caps), LAMBDA m : m.pos > i)
                 rest == RxRep(re.r, Max(re.min - 1, 0),
                               IF re.max < 0 THEN re.max ELSE re.max - 1, re.greedy)
                 more == IF re.max = 0 THEN <<>> ELSE RMEach(once, rest, s)
                 stop == IF re.min = 0 THEN here ELSE <<>>
             IN  IF re.greedy THEN more \o stop ELSE stop \o more
RMEach(ms, re, s) ==
  IF ms = <<>> THEN <<>>
  ELSE RM(re, s, Head(ms).pos, Head(ms).caps) \o RMEach(Tail(ms), re, s)
RMAlt(rs, s, i, caps) ==
  IF rs = <<>> THEN <<>> ELSE RM(Head(rs), s, i, caps) \o RMAlt(Tail(rs), s, i, caps)

\* RegExp.prototype.test
RxTest(re, s) == \E i \in 1..(Len(s) + 1) : RM(re, s, i, NoCaps) # <<>>
\* String.prototype.match without the g flag: the leftmost, most preferred match
RxMatch(re, s) ==
  LET i == CHOOSE i \in 1..(Len(s) + 1) :
             /\ RM(re, s, i, NoCaps) # <<>>
             /\ \A j \in 1..(i - 1) : RM(re, s, j, NoCaps) = <<>>
  IN  [start |-> i, end |-> RM(re, s, i, NoCaps)[1].pos, caps |-> RM(re, s, i, NoCaps)[1].caps]
\* capture group n of a match (the empty string when the group took no part)
RxGroup(s, m, n) == SubSeq(s, m.caps[n][1], m.caps[n][2] - 1)

\* date_trunc('week', CURRENT_DATE)::date
WeekStart(d) == d - (d % DaysPerWeek)

\* -------------------------------------------------------------------- rows
\* column defaults of the users table; exists is FALSE until the row is inserted
NewUserRow ==
  [exists |-> FALSE, name |-> <<>>, shame_level |-> 1, loss_aversion_enabled |-> TRUE,
   onboarding_complete |-> FALSE, onboarding_step |-> "start"]

\* onboardingData.get(user.id) || {} : no entry reads as no goal and no actions
NoData == [present |-> FALSE, goal |-> <<>>, binaryActions |-> <<>>]

\* a nullable column or an optional field: Null, or Some(v)
Null == <<>>
Some(v) == <<v>>

\* the object { step: 'start' } that stands in for a missing session; the
\* optional fields of NightlyLockState are undefined (missedItems: none)
NoSession ==
  [step |-> "start", todayScores |-> Null, missedItems |-> <<>>, missReason |-> Null,
   tomorrowPlan |-> Null]

\* identities of session objects: one per map entry and one per request in flight
SessionId == 1..(Cardinality(User) + Cardinality(Req))

\* Partial<DailyLog>: keys are the fields named in the object literal
NoUpd ==
  [keys |-> {}, scores |-> {}, total_score |-> 0, tomorrow_locked |-> FALSE,
   tomorrow_plan |-> Null, miss_reason |-> Null, notes |-> Null]

\* router.post('/webhook'): one request. res is the HTTP response (Null until
\* it is sent), response the reply handleMessage returned
IdleHook == [pc |-> "idle", user |-> None, body |-> <<>>, response |-> <<>>, res |-> Null]

\* a request that is not being handled; the fields are the locals of the handlers
IdleReq ==
  [pc |-> "idle", user |-> None, msg |-> <<>>, goal |-> <<>>, actions |-> <<>>,
   op |-> None, date |-> 0, sid |-> 0, update |-> Null, upd |-> NoUpd, id |-> 0,
   pats |-> <<>>, missed |-> <<>>]

\* ------------------------------------------------------------ token ledger
\* a freshly inserted tokens row (column defaults of the schema)
NewTokenRowRollover(u, week) ==
  LET earlier == {i \in 1..Len(tokens) : tokens[i].user_id = u}
      newest == CHOOSE i \in earlier : \A j \in earlier : tokens[j].week_start <= tokens[i].week_start
  IN  [user_id |-> u, week_start |-> week,
       starting_tokens |-> StartingTokens,
       current_tokens |-> IF earlier = {} THEN StartingTokens ELSE tokens[newest].current_tokens,
       loss_events |-> <<>>,
       punishment_triggered |-> IF earlier = {} THEN FALSE ELSE tokens[newest].punishment_triggered]
NewTokenRow(u, week) ==
  [user_id |-> u, week_start |-> week,
   starting_tokens |-> StartingTokens, current_tokens |-> StartingTokens,
   loss_events |-> <<>>, punishment_triggered |-> FALSE]

\* ids of the rows of (user, current week)
TokenRowIds(u, d) ==
  {i \in 1..Len(tokens) : tokens[i].user_id = u /\ tokens[i].week_start = WeekStart(d)}

IdleProc == [pc |-> "idle", op |-> None, user |-> None, amount |-> 0, reason |-> None,
             id |-> 0, current |-> 0, events |-> <<>>, evdate |-> 0,
             score |-> 0, possible |-> 0, locked |-> FALSE, msgs |-> <<>>]

\* Math.max(0, tokens.current_tokens - amount)
NewAmountBug(current, amount) == current - amount
NewAmount(current, amount) == Max(0, current - amount)

\* the reply processFailure builds from the updated row
FailureReply(row) == IF row.punishment_triggered THEN "ZERO TOKENS" ELSE "Token lost"

\* processFailure(user, reason, severity)
ProcessFailureIgnoringFlag(p, u, sev) ==
  /\ tp[p].pc = "idle" /\ calls < MaxCalls
  /\ calls' = calls + 1
  /\ tp' = [tp EXCEPT ![p] = [IdleProc EXCEPT !.pc = "select", !.op = "processFailure",
               !.user = u, !.reason = sev,
               !.amount = IF sev = "major" THEN MajorAmount ELSE MinorAmount]]
  /\ UNCHANGED <<users, today, tokens, last, flowVars, dayVars, schedVars, hookVars, photos>>

ProcessFailure(p, u, sev) ==
  /\ tp[p].pc = "idle" /\ calls < MaxCalls
  /\ calls' = calls + 1
  /\ IF ~users[u].loss_aversion_enabled
       THEN /\ last' = [op |-> "processFailure", user |-> u, replies |-> <<"">>]
            /\ UNCHANGED <<tp, tokens>>
       ELSE /\ tp' = [tp EXCEPT ![p] = [IdleProc EXCEPT !.pc = "select", !.op = "processFailure",
                         !.user = u, !.reason = sev,
                         !.amount = IF sev = "major" THEN MajorAmount ELSE MinorAmount]]
            /\ UNCHANGED <<tokens, last>>
  /\ UNCHANGED <<users, today, flowVars, dayVars, schedVars, hookVars, photos>>

\* checkDailyFailures(user, todayLog, totalPossible): the first trigger that
\* applies starts a processFailure; none applying returns the empty list
NextTriggerScoreOnly(p, rec, stage) ==
  IF stage = "score" /\ 2 * rec.score < rec.possible
    THEN [rec EXCEPT !.pc = "select", !.reason = "score", !.amount = MinorAmount]
  ELSE IF stage = "score" /\ ~rec.locked /\ rec.reason # "lock"
    THEN [rec EXCEPT !.pc = "select", !.reason = "lock", !.amount = MajorAmount]
  ELSE [rec EXCEPT !.pc = "return"]
NextTrigger(p, rec, stage) ==
  IF stage = "score" /\ 2 * rec.score < rec.possible
    THEN [rec EXCEPT !.pc = "select", !.reason = "score", !.amount = MinorAmount]
  ELSE IF ~rec.locked /\ rec.reason # "lock"
    THEN [rec EXCEPT !.pc = "select", !.reason = "lock", !.amount = MajorAmount]
  ELSE [rec EXCEPT !.pc = "return"]

CheckDailyFailures(p, u, score, possible, locked) ==
  /\ tp[p].pc = "idle" /\ calls < MaxCalls
  /\ calls' = calls + 1
  /\ IF ~users[u].loss_aversion_enabled
       THEN /\ last' = [op |-> "checkDailyFailures", user |-> u, replies |-> <<>>]
            /\ UNCHANGED <<tp, tokens>>
       ELSE LET rec == [IdleProc EXCEPT !.op = "checkDailyFailures", !.user = u,
                          !.score = score, !.possible = possible, !.locked = locked]
                nxt == NextTrigger(p, rec, "score")
            IN  IF nxt.pc = "return"
                  THEN /\ last' = [op |-> "checkDailyFailures", user |-> u, replies |-> <<>>]
                       /\ UNCHANGED <<tp, tokens>>
                  ELSE /\ tp' = [tp EXCEPT ![p] = nxt]
                       /\ UNCHANGED <<tokens, last>>
  /\ UNCHANGED <<users, today, flowVars, dayVars, schedVars, hookVars, photos>>

\* getCurrentWeekTokens: SELECT the row of (user, current week)
GetCurrentWeekTokens(p) ==
  /\ tp[p].pc = "select"
  /\ LET ids == TokenRowIds(tp[p].user, today)
     IN  IF ids = {}
           THEN tp' = [tp EXCEPT ![p].pc = "insert"]
           ELSE LET i == CHOOSE i \in ids : TRUE
                IN  tp' = [tp EXCEPT ![p].pc = IF tp[p].op = "resetWeeklyTokens"
                                                 THEN "return" ELSE "update",
                             ![p].id = i,
                             ![p].current = tokens[i].current_tokens,
                             ![p].events = tokens[i].loss_events,
                             ![p].evdate = today]
  /\ UNCHANGED <<users, today, tokens, calls, last, flowVars, dayVars, schedVars, hookVars, photos>>

\* getOrCreateWeekTokens: INSERT of a fresh row; UNIQUE(user_id, week_start)
\* rejects a second row of the same week (the error propagates to the caller)
InsertWeekTokens(p) ==
  /\ tp[p].pc = "insert"
  /\ IF TokenRowIds(tp[p].user, today) # {}
       THEN /\ tp' = [tp EXCEPT ![p] = IdleProc]
            /\ last' = [op |-> tp[p].op, user |-> tp[p].user, replies |-> <<"threw">>]
            /\ UNCHANGED tokens
       ELSE /\ tokens' = Append(tokens, NewTokenRow(tp[p].user, WeekStart(today)))
            /\ tp' = [tp EXCEPT ![p].pc = IF tp[p].op = "resetWeeklyTokens"
                                            THEN "return" ELSE "update",
                        ![p].id = Len(tokens) + 1,
                        ![p].current = StartingTokens, ![p].events = <<>>,
                        ![p].evdate = today]
            /\ UNCHANGED last
  /\ UNCHANGED <<users, today, calls, flowVars, dayVars, schedVars, hookVars, photos>>

\* deductToken: UPDATE tokens SET current_tokens, loss_events,
\* punishment_triggered WHERE id, from the values read before; then the caller
\* builds its reply and, in checkDailyFailures, goes on to the next trigger
DeductToken(p) ==
  /\ tp[p].pc = "update"
  /\ LET newAmount == NewAmount(tp[p].current, tp[p].amount)
         lossEvent == [date |-> tp[p].evdate, reason |-> tp[p].reason, amount |-> tp[p].amount]
         row == [tokens[tp[p].id] EXCEPT !.current_tokens = newAmount,
                   !.loss_events = Append(tp[p].events, lossEvent),
                   !.punishment_triggered = (newAmount = 0)]
         msgs == Append(tp[p].msgs, FailureReply(row))
     IN  /\ tokens' = [tokens EXCEPT ![tp[p].id] = row]
         /\ IF tp[p].op = "processFailure"
              THEN /\ tp' = [tp EXCEPT ![p] = IdleProc]
                   /\ last' = [op |-> "processFailure", user |-> tp[p].user, replies |-> msgs]
              ELSE LET nxt == NextTrigger(p, [tp[p] EXCEPT !.msgs = msgs], "lock")
                   IN  IF nxt.pc = "return"
                         THEN /\ tp' = [tp EXCEPT ![p] = IdleProc]
                              /\ last' = [op |-> "checkDailyFailures", user |-> tp[p].user,
                                          replies |-> msgs]
                         ELSE /\ tp' = [tp EXCEPT ![p] = nxt]
                              /\ UNCHANGED last
  /\ UNCHANGED <<users, today, calls, flowVars, dayVars, schedVars, hookVars, photos>>

\* resetWeeklyTokens(user): getOrCreateWeekTokens and nothing else
resetWeeklyTokens(p, u) ==
  /\ tp[p].pc = "idle" /\ calls < MaxCalls
  /\ calls' = calls + 1
  /\ tp' = [tp EXCEPT ![p] = [IdleProc EXCEPT !.pc = "select", !.op = "resetWeeklyTokens",
                                               !.user = u]]
  /\ UNCHANGED <<users, today, tokens, last, flowVars, dayVars, schedVars, hookVars, photos>>

\* getOrCreateWeekTokens has returned its row to resetWeeklyTokens
WeekTokensReturned(p) ==
  /\ tp[p].pc = "return"
  /\ tp' = [tp EXCEPT ![p] = IdleProc]
  /\ last' = [op |-> "resetWeeklyTokens", user |-> tp[p].user, replies |-> <<>>]
  /\ UNCHANGED <<users, today, tokens, calls, flowVars, dayVars, schedVars, hookVars, photos>>

\* the calendar moves on to the next day
Tick ==
  /\ today < MaxDay
  /\ today' = today + 1
  /\ UNCHANGED <<users, last, tokVars, flowVars, dayVars, schedVars, hookVars, photos>>

ScoreInput == {4, 5}
PossibleInput == {10}

InitTokens ==
  /\ users = [u \in User |-> [NewUserRow EXCEPT !.exists = TRUE, !.loss_aversion_enabled = (u = "u1")]]
  /\ today = FirstDay
  /\ tokens = <<>>
  /\ tp = [p \in TokProc |-> IdleProc]
  /\ calls = 0
  /\ last = [op |-> None, user |-> None, replies |-> <<>>]
  /\ contracts = <<>>
  /\ onboardingData = [u \in User |-> NoData]
  /\ rq = [r \in Req |-> IdleReq]
  /\ dailyLogs = <<>>
  /\ patterns = <<>>
  /\ nightlyLockState = [u \in User |-> 0]
  /\ sessions = [i \in SessionId |-> NoSession]
  /\ received = 0
  /\ scheduledJobs = [u \in User |-> Null]
  /\ cronTasks = <<>>
  /\ wh = [r \in Req |-> IdleHook]
  /\ messages = <<>>
  /\ outbox = <<>>
  /\ photos = <<>>


NextTokens ==
  \/ \E p \in TokProc, u \in User, sev \in {"minor", "major"} : ProcessFailure(p, u, sev)
  \/ \E p \in TokProc, u \in User, s \in ScoreInput, t \in PossibleInput, l \in BOOLEAN : CheckDailyFailures(p, u, s, t, l)
  \/ \E p \in TokProc : GetCurrentWeekTokens(p)
  \/ \E p \in TokProc : InsertWeekTokens(p)
  \/ \E p \in TokProc : DeductToken(p)
  \/ \E p \in TokProc, u \in User : resetWeeklyTokens(p, u)
  \/ \E p \in TokProc : WeekTokensReturned(p)
  \/ Tick

SpecTokens == InitTokens /\ [][NextTokens]_vars

\* ------------------------------------------------------------- onboarding
S_LOCKED == <<"L","O","C","K","E","D">>
S_fitness == <<"f","i","t","n","e","s","s">>
S_completed == <<"c","o","m","p","l","e","t","e","d">>

DEFAULT_BINARY_ACTIONS == <<
  [name |-> <<"c","a","l","o","r","i","e","s">>,
   threshold |-> <<"u","n","d","e","r"," ","t","a","r","g","e","t">>, points |-> 2],
  [name |-> <<"p","r","o","t","e","i","n">>,
   threshold |-> <<"h","i","t"," ","t","a","r","g","e","t">>, points |-> 2],
  [name |-> <<"w","a","l","k">>,
   threshold |-> <<"1","0","k"," ","s","t","e","p","s">>, points |-> 1],
  [name |-> <<"s","t","r","e","n","g","t","h">>, threshold |-> S_completed, points |-> 1],
  [name |-> <<"c","r","e","a","t","i","n","e">>,
   threshold |-> <<"t","a","k","e","n">>, points |-> 1],
  [name |-> <<"f","a","s","t","i","n","g">>,
   threshold |-> <<"i","n"," ","w","i","n","d","o","w">>, points |-> 1],
  [name |-> <<"w","e","i","g","h","_","i","n">>,
   threshold |-> <<"d","o","n","e">>, points |-> 1],
  [name |-> <<"p","h","o","t","o">>, threshold |-> <<"t","a","k","e","n">>, points |-> 1] >>


isGreeting(message) == message \in { <<"h","i">>, <<"h","e","l","l","o">>, <<"h","e","y">>, <<"y","o">>, <<"s","u","p">>, <<"h","o","l","a">>, <<"s","t","a","r","t">>, <<"b","e","g","i","n">> } \/ Len(message) < 4

\* name.split(' ')[0], first letter upper-cased, the rest lower-cased
CapitalizedName(message) ==
  LET firstName == Split(Trim(message), " ")[1]
  IN  IF firstName = <<>> THEN <<>>
      ELSE <<UpperChar(firstName[1])>> \o ToLowerCase(Tail(firstName))

\* line.replace(/^[-*•\d.)\s]+/, '')
IsBullet(c) == c \in {"-", "*", "."} \cup {")"} \cup Digit \/ IsSpace(c)
RECURSIVE StripBullets(_)
StripBullets(s) == IF s # <<>> /\ IsBullet(Head(s)) THEN StripBullets(Tail(s)) ELSE s

\* one parsed line: /^(.+?)\s+(under|...)?\s*(\d+)?/ matches when the cleaned
\* line holds white space, and group 1 is then the text before the first one
ParseActionLine(cleaned) ==
  LET sp == FirstSpace(cleaned)
  IN  IF sp > 0
        THEN [name |-> ToLowerCase(SubSeq(cleaned, 1, sp - 1)), threshold |-> cleaned, points |-> 1]
        ELSE [name |-> ToLowerCase(cleaned), threshold |-> S_completed, points |-> 1]

RECURSIVE ParseActionLines(_)
ParseActionLines(lines) ==
  IF lines = <<>> THEN <<>>
  ELSE LET cleaned == Trim(StripBullets(Head(lines)))
       IN  (IF cleaned = <<>> THEN <<>> ELSE <<ParseActionLine(cleaned)>>)
             \o ParseActionLines(Tail(lines))

\* parseBinaryActions: one action per non-empty line, the first two get 2 points
parseBinaryActions(message) ==
  LET lines == SelectSeq(Split(message, "\n"), LAMBDA l : Trim(l) # <<>>)
      actions == ParseActionLines(lines)
  IN  [i \in 1..Len(actions) |->
         [actions[i] EXCEPT !.points = IF Len(actions) >= 2 /\ i <= 2 THEN 2 ELSE 1]]

\* parseInt(message.trim(), 10) of an unsigned decimal prefix; -1 stands for
\* NaN and for every negative result
RECURSIVE DigitsValue(_, _)
DigitsValue(s, acc) ==
  IF s = <<>> \/ Head(s) \notin Digit THEN acc
  ELSE DigitsValue(Tail(s),
         10 * acc + (CHOOSE d \in 0..9 : <<"0","1","2","3","4","5","6","7","8","9">>[d + 1] = Head(s)))
parseInt(s) ==
  LET t == Trim(s)
      u == IF t # <<>> /\ Head(t) = "+" THEN Tail(t) ELSE t
  IN  IF u = <<>> \/ Head(u) \notin Digit THEN -1 ELSE DigitsValue(u, 0)

\* message.trim().toUpperCase() === 'LOCKED'
IsLockedLoose(message) == Includes(ToUpperCase(message), S_LOCKED)
IsLocked(message) == ToUpperCase(Trim(message)) = S_LOCKED

\* a row inserted by createContract: expiresAt is the clock plus 7 days, active
\* and locked_at are column defaults
NewContractRowNoExpiry(u, goal, actions) ==
  [user_id |-> u, goal |-> goal, binary_actions |-> actions,
   locked_at |-> today, expires_at |-> today, active |-> TRUE]
NewContractRow(u, goal, actions) ==
  [user_id |-> u, goal |-> goal, binary_actions |-> actions,
   locked_at |-> today, expires_at |-> today + DaysPerWeek, active |-> TRUE]

Returned(op, u, reply) == last' = [op |-> op, user |-> u, replies |-> <<reply>>]

\* the user row a message of user u is routed by (getOrCreateUser's SELECT)
Onboarding(u, step) ==
  users[u].exists /\ ~users[u].onboarding_complete /\ users[u].onboarding_step = step

\* getOrCreateUser for an unknown phone: the SELECT finds no row
NewUser(r, u, m) ==
  /\ rq[r].pc = "idle" /\ ~users[u].exists
  /\ rq' = [rq EXCEPT ![r] = [IdleReq EXCEPT !.pc = "createUser", !.user = u, !.msg = m]]
  /\ UNCHANGED <<users, today, last, tokVars, contracts, onboardingData, dayVars, schedVars, hookVars, photos>>

\* createUser: INSERT INTO users; phone is UNIQUE, so a second insert throws.
\* The new row is in step 'start', which handleOnboarding answers with welcome
createUser(r) ==
  /\ rq[r].pc = "createUser"
  /\ IF users[rq[r].user].exists
       THEN /\ rq' = [rq EXCEPT ![r] = IdleReq]
            /\ Returned("webhook", rq[r].user, "threw")
            /\ UNCHANGED users
       ELSE /\ users' = [users EXCEPT ![rq[r].user] = [NewUserRow EXCEPT !.exists = TRUE]]
            /\ rq' = [rq EXCEPT ![r].pc = "startUpdate"]
            /\ UNCHANGED last
  /\ UNCHANGED <<today, tokVars, contracts, onboardingData, dayVars, schedVars, hookVars, photos>>

\* handleOnboarding, case 'start' (greeting or not)
handleStart(r, u, m) ==
  /\ rq[r].pc = "idle" /\ Onboarding(u, "start")
  /\ rq' = [rq EXCEPT ![r] = [IdleReq EXCEPT !.pc = "startUpdate", !.user = u, !.msg = m]]
  /\ UNCHANGED <<users, today, last, tokVars, contracts, onboardingData, dayVars, schedVars, hookVars, photos>>

startUpdate(r) ==
  /\ rq[r].pc = "startUpdate"
  /\ users' = [users EXCEPT ![rq[r].user].onboarding_step = "awaiting_name"]
  /\ rq' = [rq EXCEPT ![r] = IdleReq]
  /\ Returned("handleOnboarding", rq[r].user, "welcome")
  /\ UNCHANGED <<today, tokVars, contracts, onboardingData, dayVars, schedVars, hookVars, photos>>

\* handleNameInput: a greeting is asked again, anything else is the name
handleNameInput(r, u, m) ==
  /\ rq[r].pc = "idle" /\ Onboarding(u, "awaiting_name")
  /\ IF isGreeting(ToLowerCase(Trim(m)))
       THEN /\ Returned("handleNameInput", u, "name?")
            /\ UNCHANGED rq
       ELSE /\ rq' = [rq EXCEPT ![r] = [IdleReq EXCEPT !.pc = "nameUpdate", !.user = u, !.msg = m]]
            /\ UNCHANGED last
  /\ UNCHANGED <<users, today, tokVars, contracts, onboardingData, dayVars, schedVars, hookVars, photos>>

nameUpdate(r) ==
  /\ rq[r].pc = "nameUpdate"
  /\ users' = [users EXCEPT ![rq[r].user].name = CapitalizedName(rq[r].msg),
                            ![rq[r].user].onboarding_step = "awaiting_goal"]
  /\ rq' = [rq EXCEPT ![r] = IdleReq]
  /\ Returned("handleNameInput", rq[r].user, "name_received")
  /\ UNCHANGED <<today, tokVars, contracts, onboardingData, dayVars, schedVars, hookVars, photos>>

\* handleGoalInput: updateUser first, then onboardingData.set(user.id, {goal})
handleGoalInput(r, u, m) ==
  /\ rq[r].pc = "idle" /\ Onboarding(u, "awaiting_goal")
  /\ rq' = [rq EXCEPT ![r] = [IdleReq EXCEPT !.pc = "goalUpdate", !.user = u, !.msg = m]]
  /\ UNCHANGED <<users, today, last, tokVars, contracts, onboardingData, dayVars, schedVars, hookVars, photos>>

goalUpdate(r) ==
  /\ rq[r].pc = "goalUpdate"
  /\ users' = [users EXCEPT ![rq[r].user].onboarding_step = "awaiting_actions"]
  /\ onboardingData' = [onboardingData EXCEPT ![rq[r].user] =
                          [present |-> TRUE, goal |-> Trim(rq[r].msg), binaryActions |-> <<>>]]
  /\ rq' = [rq EXCEPT ![r] = IdleReq]
  /\ Returned("handleGoalInput", rq[r].user, "goal_received")
  /\ UNCHANGED <<today, tokVars, contracts, dayVars, schedVars, hookVars, photos>>

\* handleActionsInput: the parsed actions (or the default template) go into
\* onboardingData before updateUser is awaited
handleActionsInput(r, u, m) ==
  /\ rq[r].pc = "idle" /\ Onboarding(u, "awaiting_actions")
  /\ LET actions == parseBinaryActions(m)
     IN  onboardingData' = [onboardingData EXCEPT ![u] =
            [@ EXCEPT !.present = TRUE,
                      !.binaryActions = IF Len(actions) > 0 THEN actions ELSE DEFAULT_BINARY_ACTIONS]]
  /\ rq' = [rq EXCEPT ![r] = [IdleReq EXCEPT !.pc = "actionsUpdate", !.user = u, !.msg = m]]
  /\ UNCHANGED <<users, today, last, tokVars, contracts, dayVars, schedVars, hookVars, photos>>

actionsUpdate(r) ==
  /\ rq[r].pc = "actionsUpdate"
  /\ users' = [users EXCEPT ![rq[r].user].onboarding_step = "awaiting_times"]
  /\ rq' = [rq EXCEPT ![r] = IdleReq]
  /\ Returned("handleActionsInput", rq[r].user, "times_setup")
  /\ UNCHANGED <<today, tokVars, contracts, onboardingData, dayVars, schedVars, hookVars, photos>>

\* handleTimesInput (the schedule columns it also writes are not modelled)
handleTimesInput(r, u, m) ==
  /\ rq[r].pc = "idle" /\ Onboarding(u, "awaiting_times")
  /\ rq' = [rq EXCEPT ![r] = [IdleReq EXCEPT !.pc = "timesUpdate", !.user = u, !.msg = m]]
  /\ UNCHANGED <<users, today, last, tokVars, contracts, onboardingData, dayVars, schedVars, hookVars, photos>>

timesUpdate(r) ==
  /\ rq[r].pc = "timesUpdate"
  /\ users' = [users EXCEPT ![rq[r].user].onboarding_step = "awaiting_shame_level"]
  /\ rq' = [rq EXCEPT ![r] = IdleReq]
  /\ Returned("handleTimesInput", rq[r].user, "shame_level")
  /\ UNCHANGED <<today, tokVars, contracts, onboardingData, dayVars, schedVars, hookVars, photos>>

\* handleShameLevelInput: 1, 2 or 3 is taken, anything else is 1
handleShameLevelInput(r, u, m) ==
  /\ rq[r].pc = "idle" /\ Onboarding(u, "awaiting_shame_level")
  /\ rq' = [rq EXCEPT ![r] = [IdleReq EXCEPT !.pc = "shameUpdate", !.user = u, !.msg = m]]
  /\ UNCHANGED <<users, today, last, tokVars, contracts, onboardingData, dayVars, schedVars, hookVars, photos>>

shameUpdate(r) ==
  /\ rq[r].pc = "shameUpdate"
  /\ LET level == parseInt(rq[r].msg)
     IN  users' = [users EXCEPT ![rq[r].user].shame_level = IF level \in {1, 2, 3} THEN level ELSE 1,
                                ![rq[r].user].onboarding_step = "awaiting_contract_confirm"]
  /\ rq' = [rq EXCEPT ![r] = IdleReq]
  /\ Returned("handleShameLevelInput", rq[r].user, "contract_review")
  /\ UNCHANGED <<today, tokVars, contracts, onboardingData, dayVars, schedVars, hookVars, photos>>

\* handleContractConfirm: LOCKED reads onboardingData and starts createContract;
\* any other reply only invites changes
handleContractConfirm(r, u, m) ==
  /\ rq[r].pc = "idle" /\ Onboarding(u, "awaiting_contract_confirm")
  /\ IF IsLocked(m)
       THEN LET data == onboardingData[u]
            IN  /\ rq' = [rq EXCEPT ![r] = [IdleReq EXCEPT !.pc = "createContract", !.user = u,
                            !.msg = m,
                            !.goal = IF data.goal # <<>> THEN data.goal ELSE S_fitness,
                            !.actions = IF data.binaryActions # <<>> THEN data.binaryActions
                                        ELSE DEFAULT_BINARY_ACTIONS]]
                /\ UNCHANGED last
       ELSE /\ Returned("handleContractConfirm", u, "what to change?")
            /\ UNCHANGED rq
  /\ UNCHANGED <<users, today, tokVars, contracts, onboardingData, dayVars, schedVars, hookVars, photos>>

\* createContract: INSERT INTO contracts
createContract(r) ==
  /\ rq[r].pc = "createContract"
  /\ contracts' = Append(contracts,
                    NewContractRow(rq[r].user, rq[r].goal, rq[r].actions))
  /\ rq' = [rq EXCEPT ![r].pc = "completeUpdate"]
  /\ UNCHANGED <<users, today, last, tokVars, onboardingData, dayVars, schedVars, hookVars, photos>>

\* updateUser(onboarding_complete, 'complete'), then onboardingData.delete
completeUpdate(r) ==
  /\ rq[r].pc = "completeUpdate"
  /\ users' = [users EXCEPT ![rq[r].user].onboarding_complete = TRUE,
                            ![rq[r].user].onboarding_step = "complete"]
  /\ onboardingData' = [onboardingData EXCEPT ![rq[r].user] = NoData]
  /\ rq' = [rq EXCEPT ![r] = IdleReq]
  /\ Returned("handleContractConfirm", rq[r].user, "complete")
  /\ UNCHANGED <<today, tokVars, contracts, dayVars, schedVars, hookVars, photos>>

\* messages a user sends while onboarding
M_actions == <<"-"," ","w","a","l","k"," ","1","0","k","\n","r","u","n","\n",
               "2",")"," ","W","a","l","k"," ","5","k">>
M_lockedLoose == <<" ","l","o","c","k","e","d","\n">>
OnboardingMsg == {M_actions, M_lockedLoose, <<"n","o","t"," ","L","O","C","K","E","D">>, <<"3">>}
OnboardingUser == {"u1"}

InitOnboarding ==
  /\ users = [u \in User |-> NewUserRow]
  /\ today = FirstDay
  /\ last = [op |-> None, user |-> None, replies |-> <<>>]
  /\ tokens = <<>>
  /\ tp = [p \in TokProc |-> IdleProc]
  /\ calls = 0
  /\ contracts = <<>>
  /\ onboardingData = [u \in User |-> NoData]
  /\ rq = [r \in Req |-> IdleReq]
  /\ dailyLogs = <<>>
  /\ patterns = <<>>
  /\ nightlyLockState = [u \in User |-> 0]
  /\ sessions = [i \in SessionId |-> NoSession]
  /\ received = 0
  /\ scheduledJobs = [u \in User |-> Null]
  /\ cronTasks = <<>>
  /\ wh = [r \in Req |-> IdleHook]
  /\ messages = <<>>
  /\ outbox = <<>>
  /\ photos = <<>>


NextOnboarding ==
  \/ \E r \in Req, u \in OnboardingUser, m \in OnboardingMsg : NewUser(r, u, m)
  \/ \E r \in Req, u \in OnboardingUser, m \in OnboardingMsg : handleStart(r, u, m)
  \/ \E r \in Req, u \in OnboardingUser, m \in OnboardingMsg : handleNameInput(r, u, m)
  \/ \E r \in Req, u \in OnboardingUser, m \in OnboardingMsg : handleGoalInput(r, u, m)
  \/ \E r \in Req, u \in OnboardingUser, m \in OnboardingMsg : handleActionsInput(r, u, m)
  \/ \E r \in Req, u \in OnboardingUser, m \in OnboardingMsg : handleTimesInput(r, u, m)
  \/ \E r \in Req, u \in OnboardingUser, m \in OnboardingMsg : handleShameLevelInput(r, u, m)
  \/ \E r \in Req, u \in OnboardingUser, m \in OnboardingMsg : handleContractConfirm(r, u, m)
  \/ \E r \in Req : createUser(r) \/ startUpdate(r) \/ nameUpdate(r) \/ goalUpdate(r) \/ actionsUpdate(r) \/ timesUpdate(r) \/ shameUpdate(r) \/ createContract(r) \/ completeUpdate(r)

SpecOnboarding == InitOnboarding /\ [][NextOnboarding]_vars

\* a restart of the process: the in-process maps (onboardingData,
\* nightlyLockState, scheduledJobs with their cron tasks) start empty and the
\* requests in flight are gone; the database keeps its rows. A restart between
\* createContract and the update of the user row lets LOCKED be sent again,
\* so restarts are counted by the contracts they can leave behind
MaxContracts == 2
Restart ==
  /\ Len(contracts) < MaxContracts
  /\ onboardingData' = [u \in User |-> NoData]
  /\ rq' = [r \in Req |-> IdleReq]
  /\ tp' = [p \in TokProc |-> IdleProc]
  /\ wh' = [r \in Req |-> IdleHook]
  /\ nightlyLockState' = [u \in User |-> 0]
  /\ sessions' = [i \in SessionId |-> NoSession]
  /\ scheduledJobs' = [u \in User |-> Null]
  /\ cronTasks' = <<>>
  /\ last' = [op |-> "restart", user |-> None, replies |-> <<>>]
  /\ UNCHANGED <<users, today, tokens, calls, contracts, dailyLogs, patterns, received,
                 messages, outbox, photos>>

\* onboarding with the user's messages handled one at a time, and restarts
\* the onboarding steps of requests handled one after the other, and restarts
NextRestart ==
  \/ \E u \in OnboardingUser, m \in OnboardingMsg : NewUser("r1", u, m)
  \/ \E u \in OnboardingUser, m \in OnboardingMsg : handleStart("r1", u, m)
  \/ \E u \in OnboardingUser, m \in OnboardingMsg : handleNameInput("r1", u, m)
  \/ \E u \in OnboardingUser, m \in OnboardingMsg : handleGoalInput("r1", u, m)
  \/ \E u \in OnboardingUser, m \in OnboardingMsg : handleActionsInput("r1", u, m)
  \/ \E u \in OnboardingUser, m \in OnboardingMsg : handleTimesInput("r1", u, m)
  \/ \E u \in OnboardingUser, m \in OnboardingMsg : handleShameLevelInput("r1", u, m)
  \/ \E u \in OnboardingUser, m \in OnboardingMsg : handleContractConfirm("r1", u, m)
  \/ createUser("r1") \/ startUpdate("r1") \/ nameUpdate("r1") \/ goalUpdate("r1")
  \/ actionsUpdate("r1") \/ timesUpdate("r1") \/ shameUpdate("r1")
  \/ createContract("r1") \/ completeUpdate("r1")
  \/ Restart

SpecRestart == InitOnboarding /\ [][NextRestart]_vars

\* ----------------------------------------------------------- daily scoring
\* Record<string, number>: a set of entries with distinct names
ScorePut(scores, name, pts) ==
  {e \in scores : e.name # name} \cup {[name |-> name, pts |-> pts]}

\* Object.values(scores).reduce((a, b) => a + b, 0)
RECURSIVE ScoreSum(_)
ScoreSum(scores) ==
  IF scores = {} THEN 0
  ELSE LET e == CHOOSE e \in scores : TRUE IN e.pts + ScoreSum(scores \ {e})

\* contract.binary_actions.reduce((a, b) => a + b.points, 0)
TotalPossible(actions) == SumSeq([i \in 1..Len(actions) |-> actions[i].points])

\* actions.map(a => a.name)
RECURSIVE NamesOf(_)
NamesOf(actions) ==
  IF actions = <<>> THEN <<>> ELSE <<Head(actions).name>> \o NamesOf(Tail(actions))

\* String.prototype.replace(a, b) with string arguments: the first occurrence only
ReplaceFirst(s, a, b) ==
  IF \E k \in 1..Len(s) : s[k] = a
    THEN [s EXCEPT ![CHOOSE k \in 1..Len(s) : s[k] = a /\ \A j \in 1..(k - 1) : s[j] # a] = b]
    ELSE s

\* lower.split(/[,\s]+/).filter(w => w.length > 2)
RECURSIVE SplitWords(_, _)
SplitWords(s, cur) ==
  LET done == IF cur = <<>> THEN <<>> ELSE <<cur>>
  IN  IF s = <<>> THEN done
      ELSE IF Head(s) = "," \/ IsSpace(Head(s)) THEN done \o SplitWords(Tail(s), <<>>)
      ELSE SplitWords(Tail(s), Append(cur, Head(s)))
Words(lower) == SelectSeq(SplitWords(lower, <<>>), LAMBDA w : Len(w) > 2)

S_all == <<"a","l","l">>

\* handleScoring, first pass: the action's name (or the name with its first
\* underscore as a space) occurs in the message
Mentioned(lower, action) ==
  LET actionLower == ToLowerCase(action.name)
  IN  Includes(lower, actionLower) \/ Includes(lower, ReplaceFirst(actionLower, "_", " "))

\* handleScoring, second pass: a word of the message is part of the name, or
\* contains the first four characters of the name
Found(words, action) ==
  LET actionLower == ToLowerCase(action.name)
  IN  \E k \in 1..Len(words) :
         \/ Includes(actionLower, words[k])
         \/ Includes(words[k], SubSeq(actionLower, 1, IF Len(actionLower) < 4 THEN Len(actionLower) ELSE 4))

\* handleScoring: completedItems and missedItems; the second pass appends to
\* the missedItems the first pass has filled
ScoredItemsNoneAsAll(message, actions) ==
  LET lower == ToLowerCase(message)
      hit1 == SelectSeq(actions, LAMBDA a : Mentioned(lower, a))
      miss1 == SelectSeq(actions, LAMBDA a : ~Mentioned(lower, a))
      hit2 == SelectSeq(actions, LAMBDA a : Found(Words(lower), a))
      miss2 == SelectSeq(actions, LAMBDA a : ~Found(Words(lower), a))
  IN  IF lower = S_all \/ lower = <<"n","o","n","e">> THEN [completed |-> NamesOf(actions), missed |-> <<>>]
      ELSE IF lower = <<"n","o","n","e">> THEN [completed |-> <<>>, missed |-> NamesOf(actions)]
      ELSE IF hit1 # <<>> THEN [completed |-> NamesOf(hit1), missed |-> NamesOf(miss1)]
      ELSE [completed |-> NamesOf(hit2), missed |-> NamesOf(miss1) \o NamesOf(miss2)]
ScoredItems(message, actions) ==
  LET lower == ToLowerCase(message)
      hit1 == SelectSeq(actions, LAMBDA a : Mentioned(lower, a))
      miss1 == SelectSeq(actions, LAMBDA a : ~Mentioned(lower, a))
      hit2 == SelectSeq(actions, LAMBDA a : Found(Words(lower), a))
      miss2 == SelectSeq(actions, LAMBDA a : ~Found(Words(lower), a))
  IN  IF lower = S_all THEN [completed |-> NamesOf(actions), missed |-> <<>>]
      ELSE IF lower = <<"n","o","n","e">> THEN [completed |-> <<>>, missed |-> NamesOf(actions)]
      ELSE IF hit1 # <<>> THEN [completed |-> NamesOf(hit1), missed |-> NamesOf(miss1)]
      ELSE [completed |-> NamesOf(hit2), missed |-> NamesOf(miss1) \o NamesOf(miss2)]

\* handleScoring: the loop that fills scores and adds up totalScore
RECURSIVE ScoreActions(_, _, _)
ScoreActions(actions, completed, acc) ==
  IF actions = <<>> THEN acc
  ELSE LET a == Head(actions)
           hit == \E k \in 1..Len(completed) : completed[k] = a.name
       IN  ScoreActions(Tail(actions), completed,
             [scores |-> ScorePut(acc.scores, a.name, IF hit THEN a.points ELSE 0),
              total |-> acc.total + (IF hit THEN a.points ELSE 0)])

\* the updates handleScoring passes to upsertDailyLog
ScoringUpd(message, actions) ==
  LET res == ScoreActions(actions, ScoredItems(message, actions).completed,
                          [scores |-> {}, total |-> 0])
  IN  [NoUpd EXCEPT !.keys = {"scores", "total_score"}, !.scores = res.scores,
                    !.total_score = res.total]

\* parseScoreUpdate
S_calories == <<"c","a","l","o","r","i","e","s">>
S_protein == <<"p","r","o","t","e","i","n">>
calorieRx ==
  RxSeq(<<RxGrp(1, RxRep(RxDigit, 3, 4, TRUE)), RxStar(RxSpace),
          RxAlt(<<RxLit(<<"c","a","l">>), RxLit(<<"k","c","a","l">>), RxLit(S_calories)>>)>>)
proteinRx ==
  RxSeq(<<RxGrp(1, RxRep(RxDigit, 2, 3, TRUE)), RxStar(RxSpace),
          RxAlt(<<RxLit(<<"g">>), RxLit(<<"g","r","a","m">>), RxLit(S_protein)>>)>>)
stepsRx ==
  RxSeq(<<RxGrp(1, RxRep(RxDigit, 4, 5, TRUE)), RxStar(RxSpace),
          RxAlt(<<RxLit(<<"s","t","e","p","s">>), RxLit(<<"k">>)>>)>>)
StepsGoal == 10000

Refers(lower, action) ==
  LET actionLower == ToLowerCase(action.name)
      actionWords == Split(actionLower, "_")
  IN  \/ Includes(lower, actionLower)
      \/ Includes(lower, ReplaceFirst(actionLower, "_", " "))
      \/ \E k \in 1..Len(actionWords) : Len(actionWords[k]) > 3 /\ Includes(lower, actionWords[k])

parseScoreUpdate(message, actions) ==
  LET lower == ToLowerCase(message)
      completed == ~\E p \in {<<"m","i","s","s","e","d">>, <<"s","k","i","p">>, <<"d","i","d","n","'","t">>, <<"f","a","i","l","e","d">>, <<"n","o">>} : Includes(lower, p)
      named == SelectSeq(actions, LAMBDA a : Refers(lower, a))
  IN  IF named # <<>> THEN Some([action |-> Head(named).name, completed |-> completed])
      ELSE IF RxTest(calorieRx, lower) THEN Some([action |-> S_calories, completed |-> TRUE])
      ELSE IF RxTest(proteinRx, lower) THEN Some([action |-> S_protein, completed |-> TRUE])
      ELSE IF RxTest(stepsRx, lower)
        THEN Some([action |-> <<"w","a","l","k">>,
                   completed |-> parseInt(RxGroup(lower, RxMatch(stepsRx, lower), 1)) >= StepsGoal])
      ELSE Null

\* updateScore: contract.binary_actions.find by lower-cased name (the matches, in order)
FindActionOrFirst(actions, name) ==
  IF SelectSeq(actions, LAMBDA a : ToLowerCase(a.name) = ToLowerCase(name)) = <<>>
    THEN actions
    ELSE SelectSeq(actions, LAMBDA a : ToLowerCase(a.name) = ToLowerCase(name))
FindAction(actions, name) ==
  SelectSeq(actions, LAMBDA a : ToLowerCase(a.name) = ToLowerCase(name))

\* updateScore: scores[action.name] = completed ? points : 0, the total is the
\* sum of the values of the map
ScoreUpdAccumulating(scores, action, completed) ==
  LET s2 == ScorePut(scores, action.name, IF completed THEN action.points ELSE 0)
  IN  [NoUpd EXCEPT !.keys = {"scores", "total_score"}, !.scores = s2,
                    !.total_score = ScoreSum(scores) + (IF completed THEN action.points ELSE 0)]
ScoreUpd(scores, action, completed) ==
  LET s2 == ScorePut(scores, action.name, IF completed THEN action.points ELSE 0)
  IN  [NoUpd EXCEPT !.keys = {"scores", "total_score"}, !.scores = s2,
                    !.total_score = ScoreSum(s2)]

\* --------------------------------------------------------------- routing
\* detectBadDayRequest
detectBadDayRequest(message) == \E t \in {<<"b","a","d"," ","d","a","y">>, <<"h","a","r","d"," ","d","a","y">>, <<"r","o","u","g","h"," ","d","a","y">>, <<"t","e","r","r","i","b","l","e"," ","d","a","y">>, <<"c","a","n","'","t"," ","t","o","d","a","y">>, <<"s","t","r","u","g","g","l","i","n","g">>, <<"n","e","e","d"," ","a"," ","b","r","e","a","k">>, <<"d","o","w","n","s","h","i","f","t">>, <<"n","o","t"," ","f","e","e","l","i","n","g"," ","i","t">>, <<"o","v","e","r","w","h","e","l","m","e","d">>, <<"e","x","h","a","u","s","t","e","d">>, <<"b","u","r","n","t"," ","o","u","t">>, <<"b","u","r","n","o","u","t">>} : Includes(ToLowerCase(message), t)

\* detectRationalization: the eleven patterns, all with the i flag
RxApos == RxOpt(RxSet({"'"}))
detectRationalization(message) == \E p \in {RxSeq(<<RxLit(<<"j","u","s","t">>), RxRep(RxSpace, 1, -1, TRUE), RxOpt(RxSeq(<<RxLit(<<"t","h","i","s">>), RxRep(RxSpace, 1, -1, TRUE)>>)), RxLit(<<"o","n","c","e">>)>>), RxLit(<<"i"," ","d","e","s","e","r","v","e">>), RxLit(<<"i"," ","e","a","r","n","e","d">>), RxLit(<<"s","p","e","c","i","a","l"," ","o","c","c","a","s","i","o","n">>), RxSeq(<<RxLit(<<"w","o","n">>), RxApos, RxLit(<<"t"," ","m","a","t","t","e","r">>)>>), RxLit(<<"s","t","a","r","t"," ","f","r","e","s","h">>), RxSeq(<<RxLit(<<"t","o","m","o","r","r","o","w"," ","i">>), RxApos, RxLit(<<"l","l">>)>>), RxSeq(<<RxLit(<<"o","n","e"," ">>), RxAlt(<<RxLit(<<"m","o","r","e">>), RxLit(<<"l","i","t","t","l","e">>), RxLit(<<"s","m","a","l","l">>)>>)>>), RxSeq(<<RxLit(<<"i","t">>), RxApos, RxLit(<<"s"," ">>), RxAlt(<<RxLit(<<"f","i","n","e">>), RxLit(<<"o","k">>), RxLit(<<"o","k","a","y">>)>>)>>), RxSeq(<<RxLit(<<"d","o","e","s","n">>), RxApos, RxLit(<<"t"," ","c","o","u","n","t">>)>>), RxSeq(<<RxLit(<<"c","h","e","a","t"," ">>), RxAlt(<<RxLit(<<"d","a","y">>), RxLit(<<"m","e","a","l">>)>>)>>)} : RxTest(p, message)

\* handleMessage for an onboarded user with an active contract and no media:
\* the first matching branch
Route(message, inLock, actions) ==
  LET lower == Trim(ToLowerCase(message))
  IN  IF inLock THEN "nightly"
      ELSE IF lower = <<"l","o","c","k">> \/ lower = <<"n","i","g","h","t","l","y">> \/ Includes(lower, <<"l","o","c","k"," ","t","o","m","o","r","r","o","w">>)
        THEN "nightly"
      ELSE IF lower = <<"s","t","a","t","u","s">> \/ lower = <<"s","c","o","r","e">> \/ Includes(lower, <<"h","o","w"," ","a","m"," ","i">>)
        THEN "status"
      ELSE IF lower = <<"w","e","e","k">> \/ lower = <<"w","e","e","k","l","y">> \/ Includes(lower, <<"w","e","e","k","l","y"," ","r","e","p","o","r","t">>)
        THEN "week"
      ELSE IF lower = <<"t","o","k","e","n","s">> \/ Includes(lower, <<"t","o","k","e","n">>) THEN "tokens"
      ELSE IF detectBadDayRequest(message) THEN "bad_day"
      ELSE IF lower = <<"r","e","s","e","t">> THEN "reset"
      ELSE IF detectRationalization(message) THEN "rationalization"
      ELSE IF parseScoreUpdate(message, actions) # Null THEN "score"
      ELSE "intent"

\* ------------------------------------------------------------ nightly plan
\* \d{1,2}[:\s]?\d{0,2}\s*(?:am|pm)?  (a time of day, as capture group n)
RxTime(n) ==
  RxGrp(n, RxSeq(<<RxRep(RxDigit, 1, 2, TRUE), RxOpt(RxSet({":", " ", "\n", "\t"})),
                   RxRep(RxDigit, 0, 2, TRUE), RxStar(RxSpace),
                   RxOpt(RxAlt(<<RxLit(<<"a","m">>), RxLit(<<"p","m">>)>>))>>))
\* [:\s]*
RxColons == RxStar(RxSet({":", " ", "\n", "\t"}))
\* keyword[:\s]*(.+?)(?:\n|$)
RxLine(keyword) ==
  RxSeq(<<RxLit(keyword), RxColons, RxGrp(1, RxRep([t |-> "any"], 1, -1, FALSE)),
          RxAlt(<<RxSet({"\n"}), [t |-> "eol"]>>)>>)
\* eat(?:ing)?[:\s]*(time)\s*[-to]+\s*(time); the en dash of the class is
\* left out, the messages are ASCII
eatingRx ==
  RxSeq(<<RxLit(<<"e","a","t">>), RxOpt(RxLit(<<"i","n","g">>)), RxColons, RxTime(1), RxStar(RxSpace),
          RxRep(RxSet({"-", "t", "o", "T", "O"}), 1, -1, TRUE), RxStar(RxSpace), RxTime(2)>>)
\* strength[:\s]*(?:yes|y|true); the check mark of the alternation is left out
strengthRx ==
  RxSeq(<<RxLit(<<"s","t","r","e","n","g","t","h">>), RxColons,
          RxAlt(<<RxLit(<<"y","e","s">>), RxLit(<<"y">>), RxLit(<<"t","r","u","e">>)>>)>>)

DefaultPlan ==
  [eating_window |-> <<"1","2","p","m","-","8","p","m">>, first_meal |-> <<"1","2","p","m">>, walk_time |-> <<"m","o","r","n","i","n","g">>,
   strength |-> FALSE, danger_moment |-> <<"e","v","e","n","i","n","g">>]

\* the trimmed first capture of keyword's line, or the default
PlanLine(lower, keyword, default) ==
  IF RxTest(RxLine(keyword), lower)
    THEN Trim(RxGroup(lower, RxMatch(RxLine(keyword), lower), 1))
    ELSE default

parseTomorrowPlan(message) ==
  LET lower == ToLowerCase(message)
  IN  [eating_window |->
         IF RxTest(eatingRx, lower)
           THEN RxGroup(lower, RxMatch(eatingRx, lower), 1) \o <<"-">>
                  \o RxGroup(lower, RxMatch(eatingRx, lower), 2)
           ELSE DefaultPlan.eating_window,
       first_meal |-> PlanLine(lower, <<"f","i","r","s","t">>, DefaultPlan.first_meal),
       walk_time |-> PlanLine(lower, <<"w","a","l","k">>, DefaultPlan.walk_time),
       strength |-> RxTest(strengthRx, lower),
       danger_moment |-> PlanLine(lower, <<"d","a","n","g","e","r">>, DefaultPlan.danger_moment)]

\* handleMissReason: the patterns it records, in order
MissPatterns(message) ==
  <<[pattern_type |-> "miss_reason", content |-> Trim(message)]>>
  \o (IF RxTest(RxTime(1), message)
        THEN <<[pattern_type |-> "failure_time",
                content |-> RxGroup(message, RxMatch(RxTime(1), message), 1)]>>
        ELSE <<>>)

\* ------------------------------------------------------------ daily tables
\* a row of daily_logs with the column defaults of the schema
NewLogRow(u, d) ==
  [user_id |-> u, date |-> d, scores |-> {}, total_score |-> 0, tomorrow_locked |-> FALSE,
   tomorrow_plan |-> Null, miss_reason |-> Null, notes |-> Null]

\* upsertDailyLog's  typeof v === 'object' ? JSON.stringify(v) : v  for a TEXT
\* column: null is an object, so it is stored as the text 'null'
Stringified(v) == IF v = Null THEN Some(<<"n","u","l","l">>) ELSE v

\* SET f = value for the fields named in updates
UpdateLogRowMergingScores(row, upd) ==
  [row EXCEPT
     !.scores = IF "scores" \in upd.keys
                  THEN {e \in @ : \A n \in upd.scores : n.name # e.name} \cup upd.scores ELSE @,
     !.total_score = IF "total_score" \in upd.keys THEN upd.total_score ELSE @,
     !.tomorrow_locked = IF "tomorrow_locked" \in upd.keys THEN upd.tomorrow_locked ELSE @,
     !.tomorrow_plan = IF "tomorrow_plan" \in upd.keys THEN upd.tomorrow_plan ELSE @,
     !.miss_reason = IF "miss_reason" \in upd.keys THEN Stringified(upd.miss_reason) ELSE @,
     !.notes = IF "notes" \in upd.keys THEN upd.notes ELSE @]
UpdateLogRow(row, upd) ==
  [row EXCEPT
     !.scores = IF "scores" \in upd.keys THEN upd.scores ELSE @,
     !.total_score = IF "total_score" \in upd.keys THEN upd.total_score ELSE @,
     !.tomorrow_locked = IF "tomorrow_locked" \in upd.keys THEN upd.tomorrow_locked ELSE @,
     !.tomorrow_plan = IF "tomorrow_plan" \in upd.keys THEN upd.tomorrow_plan ELSE @,
     !.miss_reason = IF "miss_reason" \in upd.keys THEN Stringified(upd.miss_reason) ELSE @,
     !.notes = IF "notes" \in upd.keys THEN upd.notes ELSE @]

\* WHERE user_id = $1 AND date = $2
LogIds(logs, u, d) == {i \in DOMAIN logs : logs[i].user_id = u /\ logs[i].date = d}

\* a row of patterns: frequency defaults to 1
NewPatternRow(u, type, content) ==
  [user_id |-> u, pattern_type |-> type, content |-> content, frequency |-> 1]

\* WHERE user_id = $1 AND pattern_type = $2 AND content = $3
PatternIds(u, type, content) ==
  {i \in DOMAIN patterns : /\ patterns[i].user_id = u
                           /\ patterns[i].pattern_type = type
                           /\ patterns[i].content = content}

\* getActiveContract: the active rows of the user with the latest locked_at
\* (LIMIT 1 returns one of them)
getActiveContract(u) ==
  {i \in DOMAIN contracts :
     /\ contracts[i].user_id = u /\ contracts[i].active
     /\ \A j \in DOMAIN contracts :
          contracts[j].user_id = u /\ contracts[j].active
            => contracts[j].locked_at <= contracts[i].locked_at}

\* --------------------------------------------------------- session objects
\* objects that the map or a request in flight still refers to
LiveIds(map, reqs) == {map[u] : u \in User} \cup {reqs[r].sid : r \in Req}
\* unreachable objects are forgotten
Sweep(heap, map, reqs) ==
  [i \in SessionId |-> IF i \in LiveIds(map, reqs) THEN heap[i] ELSE NoSession]
\* identity of the object a new object literal creates
NewSessionId ==
  CHOOSE i \in SessionId \ LiveIds(nightlyLockState, rq) :
    \A j \in SessionId \ LiveIds(nightlyLockState, rq) : i <= j
\* nightlyLockState.get(user.id) || { step: 'start' }
SessionOf(u) == IF nightlyLockState[u] = 0 THEN NoSession ELSE sessions[nightlyLockState[u]]

\* request r reaches an await and continues as req
Awaits(r, req, map, heap) ==
  /\ rq' = [rq EXCEPT ![r] = req]
  /\ nightlyLockState' = map
  /\ sessions' = Sweep(heap, map, rq')
  /\ UNCHANGED last
\* request r is answered with reply (or fails)
Returns(r, op, u, reply, map, heap) ==
  /\ rq' = [rq EXCEPT ![r] = IdleReq]
  /\ nightlyLockState' = map
  /\ sessions' = Sweep(heap, map, rq')
  /\ Returned(op, u, reply)

\* ------------------------------------------------------- database steps
\* upsertDailyLog: SELECT the row of (user, date)
upsertSelect(r) ==
  /\ rq[r].pc = "upsertSelect"
  /\ Awaits(r, [rq[r] EXCEPT !.pc = IF LogIds(dailyLogs, rq[r].user, rq[r].date) # {}
                                      THEN "upsertUpdate" ELSE "upsertInsert"],
            nightlyLockState, sessions)
  /\ UNCHANGED <<users, today, tokVars, contracts, onboardingData, dailyLogs, patterns, received, schedVars, hookVars, photos>>

\* what the caller of upsertDailyLog does when the statement has completed
AfterUpsertKeepingSession(r) ==
  LET q == rq[r]
      u == q.user
  IN  CASE q.op = "handleScoring" ->
             \* state.todayScores, state.missedItems, state.step; the map gets the object
             Returns(r, "handleScoring", u,
                     IF q.missed # <<>> THEN "nightly_lock_reason" ELSE "perfect day",
                     [nightlyLockState EXCEPT ![u] = q.sid],
                     [sessions EXCEPT ![q.sid].todayScores = Some(q.upd.scores),
                                      ![q.sid].missedItems = q.missed,
                                      ![q.sid].step = IF q.missed # <<>> THEN "miss_reason"
                                                      ELSE "planning"])
        [] q.op = "handleConfirm" ->
             /\ rq' = [rq EXCEPT ![r] = IdleReq]
             /\ UNCHANGED nightlyLockState
             /\ sessions' = Sweep(sessions, nightlyLockState, rq')
             /\ last' = [op |-> "handleConfirm", user |-> u,
                         replies |-> <<"locked", IF sessions[q.sid].todayScores = Null THEN 0
                                                 ELSE ScoreSum(sessions[q.sid].todayScores[1])>>]
        [] q.op = "handleBadDay" ->
             Returns(r, "handleBadDay", u, "bad_day_acknowledge", nightlyLockState, sessions)
        [] q.op = "updateScore" ->
             \* { newScore: totalScore, totalPossible, message }
             Returns(r, "updateScore", u,
                     [newScore |-> q.upd.total_score,
                      totalPossible |-> SumSeq([k \in 1..Len(q.actions) |-> q.actions[k].points]),
                      message |-> <<"scored", Head(FindAction(q.actions, q.update[1].action)).name>>],
                     nightlyLockState, sessions)
AfterUpsert(r) ==
  LET q == rq[r]
      u == q.user
  IN  CASE q.op = "handleScoring" ->
             \* state.todayScores, state.missedItems, state.step; the map gets the object
             Returns(r, "handleScoring", u,
                     IF q.missed # <<>> THEN "nightly_lock_reason" ELSE "perfect day",
                     [nightlyLockState EXCEPT ![u] = q.sid],
                     [sessions EXCEPT ![q.sid].todayScores = Some(q.upd.scores),
                                      ![q.sid].missedItems = q.missed,
                                      ![q.sid].step = IF q.missed # <<>> THEN "miss_reason"
                                                      ELSE "planning"])
        [] q.op = "handleConfirm" ->
             \* the map entry is deleted; the reply reports the sum of state.todayScores
             /\ rq' = [rq EXCEPT ![r] = IdleReq]
             /\ nightlyLockState' = [nightlyLockState EXCEPT ![u] = 0]
             /\ sessions' = Sweep(sessions, nightlyLockState', rq')
             /\ last' = [op |-> "handleConfirm", user |-> u,
                         replies |-> <<"locked", IF sessions[q.sid].todayScores = Null THEN 0
                                                 ELSE ScoreSum(sessions[q.sid].todayScores[1])>>]
        [] q.op = "handleBadDay" ->
             Returns(r, "handleBadDay", u, "bad_day_acknowledge", nightlyLockState, sessions)
        [] q.op = "updateScore" ->
             \* { newScore: totalScore, totalPossible, message }
             Returns(r, "updateScore", u,
                     [newScore |-> q.upd.total_score,
                      totalPossible |-> SumSeq([k \in 1..Len(q.actions) |-> q.actions[k].points]),
                      message |-> <<"scored", Head(FindAction(q.actions, q.update[1].action)).name>>],
                     nightlyLockState, sessions)

\* upsertDailyLog: UPDATE ... WHERE user_id = $1 AND date = $2
upsertUpdate(r) ==
  /\ rq[r].pc = "upsertUpdate"
  /\ dailyLogs' = [i \in DOMAIN dailyLogs |->
                     IF i \in LogIds(dailyLogs, rq[r].user, rq[r].date)
                       THEN UpdateLogRow(dailyLogs[i], rq[r].upd) ELSE dailyLogs[i]]
  /\ AfterUpsert(r)
  /\ UNCHANGED <<users, today, tokVars, contracts, onboardingData, patterns, received, schedVars, hookVars, photos>>

\* upsertDailyLog: INSERT; UNIQUE(user_id, date) rejects a second row of the
\* key and the error reaches the webhook's catch
upsertInsertNoUnique(r) ==
  /\ rq[r].pc = "upsertInsert"
  /\ dailyLogs' = Append(dailyLogs, UpdateLogRow(NewLogRow(rq[r].user, rq[r].date), rq[r].upd))
  /\ AfterUpsert(r)
  /\ UNCHANGED <<users, today, tokVars, contracts, onboardingData, patterns, received, schedVars, hookVars, photos>>
upsertInsert(r) ==
  /\ rq[r].pc = "upsertInsert"
  /\ IF LogIds(dailyLogs, rq[r].user, rq[r].date) # {}
       THEN /\ Returns(r, "upsertDailyLog", rq[r].user, "threw", nightlyLockState, sessions)
            /\ UNCHANGED dailyLogs
       ELSE /\ dailyLogs' = Append(dailyLogs,
                              UpdateLogRow(NewLogRow(rq[r].user, rq[r].date), rq[r].upd))
            /\ AfterUpsert(r)
  /\ UNCHANGED <<users, today, tokVars, contracts, onboardingData, patterns, received, schedVars, hookVars, photos>>

\* recordPattern: SELECT a row of the key (queryOne takes the first one returned)
patSelect(r) ==
  /\ rq[r].pc = "patSelect"
  /\ LET key == Head(rq[r].pats)
         ids == PatternIds(rq[r].user, key.pattern_type, key.content)
     IN  IF ids = {}
           THEN Awaits(r, [rq[r] EXCEPT !.pc = "patInsert"], nightlyLockState, sessions)
           ELSE \E i \in ids :
                  Awaits(r, [rq[r] EXCEPT !.pc = "patUpdate", !.id = i], nightlyLockState, sessions)
  /\ UNCHANGED <<users, today, tokVars, contracts, onboardingData, dailyLogs, patterns, received, schedVars, hookVars, photos>>

\* what the caller of recordPattern does when the statement has completed
AfterPattern(r) ==
  LET q == rq[r]
      u == q.user
  IN  IF Len(q.pats) > 1
        THEN Awaits(r, [q EXCEPT !.pc = "patSelect", !.pats = Tail(@), !.id = 0],
                    nightlyLockState, sessions)
        ELSE CASE q.op = "handleMissReason" ->
                    Returns(r, "handleMissReason", u, "noted",
                            [nightlyLockState EXCEPT ![u] = q.sid],
                            [sessions EXCEPT ![q.sid].step = "planning"])
               [] q.op = "handleBadDay" ->
                    Awaits(r, [q EXCEPT !.pc = "upsertSelect", !.pats = <<>>, !.id = 0],
                           nightlyLockState, sessions)

\* recordPattern: UPDATE patterns SET frequency = frequency + 1 WHERE id = $1
patUpdate(r) ==
  /\ rq[r].pc = "patUpdate"
  /\ patterns' = [patterns EXCEPT ![rq[r].id].frequency = @ + 1]
  /\ AfterPattern(r)
  /\ UNCHANGED <<users, today, tokVars, contracts, onboardingData, dailyLogs, received, schedVars, hookVars, photos>>

\* recordPattern: INSERT INTO patterns (no constraint on the key)
patInsert(r) ==
  /\ rq[r].pc = "patInsert"
  /\ LET key == Head(rq[r].pats)
     IN  patterns' = Append(patterns, NewPatternRow(rq[r].user, key.pattern_type, key.content))
  /\ AfterPattern(r)
  /\ UNCHANGED <<users, today, tokVars, contracts, onboardingData, dailyLogs, received, schedVars, hookVars, photos>>

\* updateScore: getTodayLog (the row of CURRENT_DATE), then the action lookup;
\* an unknown action returns without a write
getTodayLog(r) ==
  /\ rq[r].pc = "getTodayLog"
  /\ LET q == rq[r]
         ids == LogIds(dailyLogs, q.user, today)
         scores == IF ids = {} THEN {} ELSE dailyLogs[CHOOSE i \in ids : TRUE].scores
         action == FindAction(q.actions, q.update[1].action)
     IN  IF action = <<>>
           THEN Returns(r, "updateScore", q.user,
                        [newScore |-> 0, totalPossible |-> 0,
                         message |-> <<"Unknown action: ", q.update[1].action>>],
                        nightlyLockState, sessions)
           ELSE Awaits(r, [q EXCEPT !.pc = "upsertSelect",
                                    !.upd = ScoreUpd(scores, Head(action), q.update[1].completed)],
                       nightlyLockState, sessions)
  /\ UNCHANGED <<users, today, tokVars, contracts, onboardingData, dailyLogs, patterns, received, schedVars, hookVars, photos>>

\* ---------------------------------------------------------------- handlers
\* messages an onboarded user sends
DailyMsg == {<<"l","o","c","k">>, <<"a","l","l">>, <<"d","i","d"," ","w","a","l","k">>, <<"b","a","d"," ","d","a","y"," ","a","t"," ","9"," ","p","m">>, <<"r","e","s","e","t">>, M_lockedLoose, <<"n","o","n","e">>, <<"w","a","l","k"," ","7","a","m">>, <<"1","8","0","0"," ","c","a","l">>, <<"d","i","d"," ","r","u","n">>}
DailyUser == {"u1"}
\* binary_actions of contracts the onboarding flow creates
DailyActions == {parseBinaryActions(M_actions), parseBinaryActions(<<"w","a","l","k","\n","r","u","n">>)}
\* the parsers, tabulated for the messages and contracts above
RouteOf == [m \in DailyMsg, actions \in DailyActions |-> Route(m, FALSE, actions)]
ScoringOf ==
  [m \in DailyMsg, actions \in DailyActions |->
     [upd |-> ScoringUpd(m, actions), missed |-> ScoredItems(m, actions).missed]]
PlanOf == [m \in DailyMsg |-> parseTomorrowPlan(m)]
MissPatternsOf == [m \in DailyMsg |-> MissPatterns(m)]

\* a message of onboarded user u reaches handleMessage on request r
Receives(r, u) ==
  rq[r].pc = "idle" /\ users[u].exists /\ users[u].onboarding_complete /\ received < MaxMsgs
\* contract c is the active contract and the message takes the branch route
RoutedCommandsFirst(u, m, c, route) ==
  /\ c \in getActiveContract(u)
  /\ IF nightlyLockState[u] # 0
          /\ RouteOf[m, contracts[c].binary_actions] \notin {"bad_day", "reset", "score"}
       THEN route = "nightly"
       ELSE RouteOf[m, contracts[c].binary_actions] = route
Routed(u, m, c, route) ==
  /\ c \in getActiveContract(u)
  /\ IF nightlyLockState[u] # 0 THEN route = "nightly"
     ELSE RouteOf[m, contracts[c].binary_actions] = route

\* handleNightlyLock without a session: startNightlyLock puts a new object
\* { step: 'scoring' } into the map
startNightlyLock(r, u, m) ==
  /\ Receives(r, u)
  /\ \E c \in DOMAIN contracts : Routed(u, m, c, "nightly")
  /\ SessionOf(u).step = "start"
  /\ Returns(r, "startNightlyLock", u, "score today",
             [nightlyLockState EXCEPT ![u] = NewSessionId],
             [sessions EXCEPT ![NewSessionId] = [NoSession EXCEPT !.step = "scoring"]])
  /\ UNCHANGED <<users, today, tokVars, contracts, onboardingData, dailyLogs, patterns, received, schedVars, hookVars, photos>>

\* handleScoring up to its await of upsertDailyLog
handleScoring(r, u, m) ==
  /\ Receives(r, u)
  /\ SessionOf(u).step = "scoring"
  /\ \E c \in DOMAIN contracts :
        /\ Routed(u, m, c, "nightly")
        /\ Awaits(r, [IdleReq EXCEPT !.pc = "upsertSelect", !.op = "handleScoring",
                        !.user = u, !.msg = m, !.actions = contracts[c].binary_actions,
                        !.date = today, !.sid = nightlyLockState[u],
                        !.upd = ScoringOf[m, contracts[c].binary_actions].upd,
                        !.missed = ScoringOf[m, contracts[c].binary_actions].missed],
                  nightlyLockState, sessions)
  /\ received' = received + 1
  /\ UNCHANGED <<users, today, tokVars, contracts, onboardingData, dailyLogs, patterns, schedVars, hookVars, photos>>

\* handleMissReason up to its first await: state.missReason is set at once
handleMissReason(r, u, m) ==
  /\ Receives(r, u)
  /\ SessionOf(u).step = "miss_reason"
  /\ \E c \in DOMAIN contracts : Routed(u, m, c, "nightly")
  /\ Awaits(r, [IdleReq EXCEPT !.pc = "patSelect", !.op = "handleMissReason", !.user = u,
                  !.msg = m, !.sid = nightlyLockState[u], !.pats = MissPatternsOf[m]],
            nightlyLockState,
            [sessions EXCEPT ![nightlyLockState[u]].missReason = Some(Trim(m))])
  /\ received' = received + 1
  /\ UNCHANGED <<users, today, tokVars, contracts, onboardingData, dailyLogs, patterns, schedVars, hookVars, photos>>

\* handlePlanning: no await
handlePlanning(r, u, m) ==
  /\ Receives(r, u)
  /\ SessionOf(u).step = "planning"
  /\ \E c \in DOMAIN contracts : Routed(u, m, c, "nightly")
  /\ Returns(r, "handlePlanning", u, "plan",
             nightlyLockState,
             [sessions EXCEPT ![nightlyLockState[u]].tomorrowPlan = Some(PlanOf[m]),
                              ![nightlyLockState[u]].step = "confirm"])
  /\ UNCHANGED <<users, today, tokVars, contracts, onboardingData, dailyLogs, patterns, received, schedVars, hookVars, photos>>

\* handleConfirm: LOCKED awaits upsertDailyLog (state.missReason || null: the
\* empty text is null as well); any other reply goes back to planning
handleConfirm(r, u, m) ==
  /\ Receives(r, u)
  /\ SessionOf(u).step = "confirm"
  /\ \E c \in DOMAIN contracts : Routed(u, m, c, "nightly")
  /\ IF IsLocked(m)
       THEN Awaits(r, [IdleReq EXCEPT !.pc = "upsertSelect", !.op = "handleConfirm",
                         !.user = u, !.msg = m, !.date = today, !.sid = nightlyLockState[u],
                         !.upd = [NoUpd EXCEPT
                                    !.keys = {"tomorrow_locked", "tomorrow_plan", "miss_reason"},
                                    !.tomorrow_locked = TRUE,
                                    !.tomorrow_plan = SessionOf(u).tomorrowPlan,
                                    !.miss_reason = IF SessionOf(u).missReason = Some(<<>>)
                                                      THEN Null ELSE SessionOf(u).missReason]],
                   nightlyLockState, sessions)
       ELSE Returns(r, "handleConfirm", u, "what to change?", nightlyLockState,
                    [sessions EXCEPT ![nightlyLockState[u]].step = "planning"])
  /\ received' = IF IsLocked(m) THEN received + 1 ELSE received
  /\ UNCHANGED <<users, today, tokVars, contracts, onboardingData, dailyLogs, patterns, schedVars, hookVars, photos>>

\* handleBadDay up to its await of recordPattern
handleBadDay(r, u, m) ==
  /\ Receives(r, u)
  /\ \E c \in DOMAIN contracts : Routed(u, m, c, "bad_day")
  /\ Awaits(r, [IdleReq EXCEPT !.pc = "patSelect", !.op = "handleBadDay", !.user = u,
                  !.msg = m, !.date = today,
                  !.pats = <<[pattern_type |-> "bad_day", content |-> m]>>,
                  !.upd = [NoUpd EXCEPT !.keys = {"notes"}, !.notes = Some(<<"D","O","W","N","S","H","I","F","T",":"," ">> \o m)]],
            nightlyLockState, sessions)
  /\ received' = received + 1
  /\ UNCHANGED <<users, today, tokVars, contracts, onboardingData, dailyLogs, patterns, schedVars, hookVars, photos>>

\* the reset command: resetNightlyLock deletes the map entry
resetNightlyLock(r, u, m) ==
  /\ Receives(r, u)
  /\ \E c \in DOMAIN contracts : Routed(u, m, c, "reset")
  /\ Returns(r, "reset", u, "State reset", [nightlyLockState EXCEPT ![u] = 0], sessions)
  /\ UNCHANGED <<users, today, tokVars, contracts, onboardingData, dailyLogs, patterns, received, schedVars, hookVars, photos>>

\* a message parseScoreUpdate understands: updateScore up to its await of getTodayLog
updateScore(r, u, m) ==
  /\ Receives(r, u)
  /\ \E c \in DOMAIN contracts :
        /\ Routed(u, m, c, "score")
        /\ Awaits(r, [IdleReq EXCEPT !.pc = "getTodayLog", !.op = "updateScore", !.user = u,
                        !.msg = m, !.actions = contracts[c].binary_actions, !.date = today,
                        !.update = parseScoreUpdate(m, contracts[c].binary_actions)],
                  nightlyLockState, sessions)
  /\ received' = received + 1
  /\ UNCHANGED <<users, today, tokVars, contracts, onboardingData, dailyLogs, patterns, schedVars, hookVars, photos>>

InitDaily ==
  /\ users = [u \in User |->
                IF u \in DailyUser
                  THEN [NewUserRow EXCEPT !.exists = TRUE, !.onboarding_complete = TRUE,
                                          !.onboarding_step = "complete"]
                  ELSE NewUserRow]
  /\ today = FirstDay
  /\ last = [op |-> None, user |-> None, replies |-> <<>>]
  /\ tokens = <<>>
  /\ tp = [p \in TokProc |-> IdleProc]
  /\ calls = 0
  /\ \E actions \in DailyActions :
        contracts = <<NewContractRow("u1", S_fitness, actions)>>
  /\ onboardingData = [u \in User |-> NoData]
  /\ rq = [r \in Req |-> IdleReq]
  /\ dailyLogs = <<>>
  /\ patterns = <<>>
  /\ nightlyLockState = [u \in User |-> 0]
  /\ sessions = [i \in SessionId |-> NoSession]
  /\ received = 0
  /\ scheduledJobs = [u \in User |-> Null]
  /\ cronTasks = <<>>
  /\ wh = [r \in Req |-> IdleHook]
  /\ messages = <<>>
  /\ outbox = <<>>
  /\ photos = <<>>


NextDaily ==
  \/ \E r \in Req, u \in DailyUser, m \in DailyMsg : startNightlyLock(r, u, m)
  \/ \E r \in Req, u \in DailyUser, m \in DailyMsg : handleScoring(r, u, m)
  \/ \E r \in Req, u \in DailyUser, m \in DailyMsg : handleMissReason(r, u, m)
  \/ \E r \in Req, u \in DailyUser, m \in DailyMsg : handlePlanning(r, u, m)
  \/ \E r \in Req, u \in DailyUser, m \in DailyMsg : handleConfirm(r, u, m)
  \/ \E r \in Req, u \in DailyUser, m \in DailyMsg : handleBadDay(r, u, m)
  \/ \E r \in Req, u \in DailyUser, m \in DailyMsg : resetNightlyLock(r, u, m)
  \/ \E r \in Req, u \in DailyUser, m \in DailyMsg : updateScore(r, u, m)
  \/ \E r \in Req : getTodayLog(r)
  \/ \E r \in Req : upsertSelect(r) \/ upsertUpdate(r) \/ upsertInsert(r)
  \/ \E r \in Req : patSelect(r) \/ patUpdate(r) \/ patInsert(r)
  \/ Tick

SpecDaily == InitDaily /\ [][NextDaily]_vars

\* the day's start, or the state in which handleScoring has answered the first
\* scoring message of the user's nightly lock
InitScored ==
  \/ InitDaily
  \/ /\ users = [u \in User |->
                   IF u \in DailyUser
                     THEN [NewUserRow EXCEPT !.exists = TRUE, !.onboarding_complete = TRUE,
                                             !.onboarding_step = "complete"]
                     ELSE NewUserRow]
     /\ today = FirstDay
     /\ tokens = <<>>
     /\ tp = [p \in TokProc |-> IdleProc]
     /\ calls = 0
     /\ onboardingData = [u \in User |-> NoData]
     /\ rq = [r \in Req |-> IdleReq]
     /\ patterns = <<>>
     /\ nightlyLockState = [u \in User |-> IF u \in DailyUser THEN 1 ELSE 0]
     /\ received = 0
     /\ scheduledJobs = [u \in User |-> Null]
     /\ cronTasks = <<>>
     /\ wh = [r \in Req |-> IdleHook]
     /\ messages = <<>>
     /\ outbox = <<>>
     /\ photos = <<>>
     /\ \E actions \in DailyActions, m \in {<<"n","o","n","e">>, <<"d","i","d"," ","w","a","l","k">>} :
           LET scored == ScoringOf[m, actions] IN
           /\ contracts = <<NewContractRow("u1", S_fitness, actions)>>
           /\ dailyLogs = <<UpdateLogRow(NewLogRow("u1", FirstDay), scored.upd)>>
           /\ sessions = [i \in SessionId |->
                            IF i = 1
                              THEN [NoSession EXCEPT
                                      !.step = IF scored.missed # <<>> THEN "miss_reason" ELSE "planning",
                                      !.todayScores = Some(scored.upd.scores),
                                      !.missedItems = scored.missed]
                              ELSE NoSession]
           /\ last = [op |-> "handleScoring", user |-> "u1",
                      replies |-> <<IF scored.missed # <<>> THEN "nightly_lock_reason" ELSE "perfect day">>]

SpecScored == InitScored /\ [][NextDaily]_vars

\* ------------------------------------------------------- shame escalation
\* getRecentLogs: the user's rows of the last days, ORDER BY date DESC
getRecentLogs(u, days) ==
  LET ids == {i \in DOMAIN dailyLogs :
                dailyLogs[i].user_id = u /\ dailyLogs[i].date >= today - days}
      rank(i) == 1 + Cardinality({j \in ids : dailyLogs[j].date > dailyLogs[i].date})
  IN  [k \in 1..Cardinality(ids) |-> dailyLogs[CHOOSE i \in ids : rank(i) = k]]

\* recentLogs.filter(l => l.total_score < 5).length
FailedDays(logs) == Cardinality({k \in DOMAIN logs : logs[k].total_score < 5})

\* countConsecutiveFailures: the failed logs before the first one that is not
countConsecutiveFailures(logs) ==
  Cardinality({k \in DOMAIN logs : \A j \in 1..k : logs[j].total_score < 5})

\* patterns.filter(p => p.pattern_type === 'miss_reason' && p.frequency >= 2)
RepeatExcuses(pats) ==
  SelectSeq(pats, LAMBDA p : p.pattern_type = "miss_reason" /\ p.frequency >= 2)

\* determineShameEscalation: the level of the escalation returned, "none" for null
determineShameEscalationWithoutGate(shame_level, recentLogs, pats) ==
  IF FailedDays(recentLogs) >= 1 /\ FailedDays(recentLogs) <= 2
    THEN "tier1"
  ELSE IF shame_level >= 2 /\ (countConsecutiveFailures(recentLogs) >= 2 \/ RepeatExcuses(pats) # <<>>)
    THEN "tier2"
  ELSE IF shame_level >= 3 /\ FailedDays(recentLogs) >= 4
    THEN "tier3"
  ELSE "none"
determineShameEscalation(shame_level, recentLogs, pats) ==
  IF shame_level = 0 THEN "none"
  ELSE IF shame_level >= 1 /\ FailedDays(recentLogs) >= 1 /\ FailedDays(recentLogs) <= 2
    THEN "tier1"
  ELSE IF shame_level >= 2 /\ (countConsecutiveFailures(recentLogs) >= 2 \/ RepeatExcuses(pats) # <<>>)
    THEN "tier2"
  ELSE IF shame_level >= 3 /\ FailedDays(recentLogs) >= 4
    THEN "tier3"
  ELSE "none"

\* a call of determineShameEscalation with the user's row, the logs of the
\* last seven days and the user's patterns
CallDetermineShameEscalation(u) ==
  /\ users[u].exists
  /\ Returned("determineShameEscalation", u,
              determineShameEscalation(users[u].shame_level, getRecentLogs(u, DaysPerWeek),
                                       SelectSeq(patterns, LAMBDA p : p.user_id = u)))
  /\ UNCHANGED <<users, today, tokVars, flowVars, dayVars, schedVars, hookVars, photos>>

\* a user with any shame level, a history of up to MaxLogs daily logs whose
\* scores lie on both sides of 5, and at most one pattern
InitShame ==
  /\ \E level \in 0..3 :
        users = [u \in User |->
                   IF u \in DailyUser
                     THEN [NewUserRow EXCEPT !.exists = TRUE, !.onboarding_complete = TRUE,
                                             !.onboarding_step = "complete",
                                             !.shame_level = level]
                     ELSE NewUserRow]
  /\ today = FirstDay
  /\ last = [op |-> None, user |-> None, replies |-> <<>>]
  /\ tokens = <<>>
  /\ tp = [p \in TokProc |-> IdleProc]
  /\ calls = 0
  /\ contracts = <<>>
  /\ onboardingData = [u \in User |-> NoData]
  /\ rq = [r \in Req |-> IdleReq]
  /\ \E n \in 0..MaxLogs : \E score \in [1..n -> {4, 5}] :
        dailyLogs = [k \in 1..n |->
                       [NewLogRow("u1", FirstDay - n + k) EXCEPT !.total_score = score[k]]]
  /\ \E type \in {"miss_reason", "bad_day"}, frequency \in 0..3 :
        patterns = IF frequency = 0 THEN <<>>
                   ELSE <<[NewPatternRow("u1", type, <<"t","i","r","e","d">>) EXCEPT !.frequency = frequency]>>
  /\ nightlyLockState = [u \in User |-> 0]
  /\ sessions = [i \in SessionId |-> NoSession]
  /\ received = 0
  /\ scheduledJobs = [u \in User |-> Null]
  /\ cronTasks = <<>>
  /\ wh = [r \in Req |-> IdleHook]
  /\ messages = <<>>
  /\ outbox = <<>>
  /\ photos = <<>>

SpecShame == InitShame /\ [][\E u \in User : CallDetermineShameEscalation(u)]_vars

\* ---------------------------------------------------------------- scheduler
\* parseTime: whitespace removed, lower case, am/pm stripped, split at ':'
RECURSIVE WithoutAmPm(_)
WithoutAmPm(s) ==
  IF s = <<>> THEN s
  ELSE IF Len(s) >= 2 /\ SubSeq(s, 1, 2) \in {<<"a","m">>, <<"p","m">>} THEN WithoutAmPm(SubSeq(s, 3, Len(s)))
  ELSE <<Head(s)>> \o WithoutAmPm(Tail(s))

parseTime(timeStr) ==
  LET cleaned == ToLowerCase(SelectSeq(timeStr, LAMBDA c : ~IsSpace(c)))
      parts == Split(WithoutAmPm(cleaned), ":")
      h == parseInt(parts[1])
      minutes == IF Len(parts) >= 2 THEN parseInt(parts[2]) ELSE 0
      h12 == IF Includes(cleaned, <<"p","m">>) /\ h >= 0 /\ h < 12 THEN h + 12 ELSE h
      hours == IF Includes(cleaned, <<"a","m">>) /\ h12 = 12 THEN 0 ELSE h12
  IN  <<hours, minutes>>

\* Number.prototype.toString for 0..99, and padStart(2, '0')
NumberText(n) ==
  LET d(k) == <<"0","1","2","3","4","5","6","7","8","9">>[k + 1]
  IN  IF n < 10 THEN <<d(n)>> ELSE <<d(n \div 10), d(n % 10)>>
PadStart2(s) == IF Len(s) >= 2 THEN s ELSE [k \in 1..2 - Len(s) |-> "0"] \o s

\* Array.prototype.toString: the elements joined by commas
RECURSIVE ArrayToString(_)
ArrayToString(a) ==
  IF a = <<>> THEN <<>>
  ELSE IF Len(a) = 1 THEN a[1]
  ELSE a[1] \o <<",">> \o ArrayToString(Tail(a))

\* JSON.parse(user.risk_times?.toString() || '[]') as string[], then iterated.
\* risk_times is a string[] (the JSONB column, parsed by the driver); the text
\* of an empty or missing array is '' and falls back to '[]'. The text of an
\* array of times starts with digits followed by ':' (or is a bare number,
\* which is not iterable): JSON.parse or the loop throws
riskTimes(risk_times) ==
  LET text == IF ArrayToString(risk_times) = <<>> THEN <<"[","]">> ELSE ArrayToString(risk_times)
  IN  IF text = <<"[","]">> THEN [ok |-> TRUE, value |-> <<>>]
      ELSE [ok |-> FALSE, value |-> <<>>]

\* cancelUserJobs: every task of the user's registered jobs is stopped and the
\* map entry deleted
Stopped(u) ==
  [i \in 1..Len(cronTasks) |->
     IF scheduledJobs[u] # Null /\ \E k \in 1..Len(scheduledJobs[u][1]) : scheduledJobs[u][1][k].task = i
       THEN [cronTasks[i] EXCEPT !.running = FALSE]
       ELSE cronTasks[i]]

cancelUserJobs(u) ==
  /\ cronTasks' = Stopped(u)
  /\ scheduledJobs' = [scheduledJobs EXCEPT ![u] = Null]
  /\ last' = [op |-> "cancelUserJobs", user |-> u, replies |-> <<>>]
  /\ UNCHANGED <<users, today, tokVars, flowVars, dayVars, hookVars, photos>>

\* the fields of the User objects scheduleUserJobs is called with: TIME
\* columns as the driver returns them, risk_times as onboarding stores them
WakeInput == {Null, Some(<<"0","7",":","0","0",":","0","0">>)}
SleepInput == {Null, Some(<<"0","1",":","3","0",":","0","0">>)}
RiskInput == {<<>>, <<<<"2","1",":","0","0">>>>, <<<<"2","1",":","0","0">>, <<"2","3",":","3","0">>>>}

\* a TIME column as the driver returns it: HH:MM:SS
TimeColumn(h, m) == PadStart2(NumberText(h)) \o <<":">> \o PadStart2(NumberText(m)) \o <<":","0","0">>

\* the sleep times a reminder is scheduled for: every hour of the day on the
\* hour, and the hours around midnight at other minutes
ReminderClock == {<<h, 0>> : h \in 0..23} \cup {<<h, m>> : h \in {0, 1, 2, 23}, m \in {30, 59}}
ReminderSleepInput == {Some(TimeColumn(c[1], c[2])) : c \in ReminderClock}

\* two hours before the sleep hour, wrapping across midnight
nightlyHourNoWrap(hours) == hours - 2 + 24
nightlyHour(hours) == (hours - 2 + 24) % 24

\* the jobs scheduleUserJobs builds from the user object, in the order it
\* creates them, and whether it reaches scheduledJobs.set
NewJobs(u, wake_time, sleep_time, risk_times) ==
  LET morning == IF wake_time # Null
                   THEN <<[callback |-> "sendMorningMessage", type |-> "morning",
                           id |-> <<"morning", u>>, time |-> wake_time[1],
                           cron |-> <<parseTime(wake_time[1])[2], parseTime(wake_time[1])[1]>>]>>
                   ELSE <<>>
      nightly_hour == nightlyHour(parseTime(sleep_time[1])[1])
      nightly == IF sleep_time # Null
                   THEN <<[callback |-> "sendNightlyReminder", type |-> "nightly",
                           id |-> <<"nightly", u>>,
                           time |-> NumberText(nightly_hour) \o <<":">>
                                    \o PadStart2(NumberText(parseTime(sleep_time[1])[2])),
                           cron |-> <<parseTime(sleep_time[1])[2], nightly_hour>>]>>
                   ELSE <<>>
      parsed == riskTimes(risk_times)
      risk == [k \in 1..Len(parsed.value) |->
                 [callback |-> "sendRiskIntercept", type |-> "risk",
                  id |-> <<"risk", u, parsed.value[k]>>, time |-> parsed.value[k],
                  cron |-> <<parseTime(parsed.value[k])[2], parseTime(parsed.value[k])[1]>>]]
  IN  [ok |-> parsed.ok, made |-> morning \o nightly \o risk]

NewJobsOf ==
  [u \in User, wake_time \in WakeInput, sleep_time \in SleepInput \cup ReminderSleepInput,
   risk_times \in RiskInput |->
     NewJobs(u, wake_time, sleep_time, risk_times)]

MaxTasks == 3

\* scheduleUserJobs(user): the body has no await, so it runs in one step. The
\* user object is the caller's: its wake_time, sleep_time and risk_times are
\* inputs. cron.schedule starts the task it returns. An exception leaves the
\* tasks created so far running and skips scheduledJobs.set
scheduleUserJobs(u, wake_time, sleep_time, risk_times) ==
  LET new == NewJobsOf[u, wake_time, sleep_time, risk_times]
      jobs == [k \in 1..Len(new.made) |->
                 [id |-> new.made[k].id, userId |-> u, type |-> new.made[k].type,
                  time |-> new.made[k].time, task |-> Len(cronTasks) + k]]
  IN  /\ Len(cronTasks) < MaxTasks
      /\ cronTasks' = Stopped(u) \o [k \in 1..Len(new.made) |->
                                       [userId |-> u, callback |-> new.made[k].callback,
                                        cron |-> new.made[k].cron, running |-> TRUE]]
      /\ scheduledJobs' = [scheduledJobs EXCEPT ![u] = IF new.ok THEN Some(jobs) ELSE Null]
      /\ last' = [op |-> "scheduleUserJobs", user |-> u,
                  replies |-> IF new.ok THEN <<>> ELSE <<"SyntaxError">>]
      /\ UNCHANGED <<users, today, tokVars, flowVars, dayVars, hookVars, photos>>

\* a running task reaches its time: the callback awaits sendMorningMessage,
\* sendNightlyReminder or sendRiskIntercept for the user it was created with.
\* Each has its whole body in try/catch: an error of a collaborator (ok =
\* FALSE) is logged there. sendMorningMessage returns without a message when
\* the user has no active contract
cronFiresStoppingOnError(i, ok) ==
  LET task == cronTasks[i]
      sends == ok /\ (task.callback = "sendMorningMessage" => getActiveContract(task.userId) # {})
  IN  /\ i \in 1..Len(cronTasks) /\ task.running
      /\ Len(outbox) < MaxMsgs
      /\ outbox' = IF sends THEN Append(outbox, [to |-> task.userId, body |-> task.callback])
                   ELSE outbox
      /\ Returned(task.callback, task.userId,
                  IF sends THEN "sent" ELSE IF ok THEN "no contract" ELSE "error logged")
      /\ cronTasks' = IF ok THEN cronTasks ELSE [cronTasks EXCEPT ![i].running = FALSE]
      /\ UNCHANGED <<users, today, tokVars, flowVars, dayVars, scheduledJobs, wh, messages, photos>>
cronFires(i, ok) ==
  LET task == cronTasks[i]
      sends == ok /\ (task.callback = "sendMorningMessage" => getActiveContract(task.userId) # {})
  IN  /\ i \in 1..Len(cronTasks) /\ task.running
      /\ Len(outbox) < MaxMsgs
      /\ outbox' = IF sends THEN Append(outbox, [to |-> task.userId, body |-> task.callback])
                   ELSE outbox
      /\ Returned(task.callback, task.userId,
                  IF sends THEN "sent" ELSE IF ok THEN "no contract" ELSE "error logged")
      /\ UNCHANGED <<users, today, tokVars, flowVars, dayVars, schedVars, wh, messages, photos>>

InitScheduler ==
  /\ users = [u \in User |-> [NewUserRow EXCEPT !.exists = TRUE, !.onboarding_complete = TRUE,
                                               !.onboarding_step = "complete"]]
  /\ today = FirstDay
  /\ last = [op |-> None, user |-> None, replies |-> <<>>]
  /\ tokens = <<>>
  /\ tp = [p \in TokProc |-> IdleProc]
  /\ calls = 0
  /\ contracts = <<NewContractRow("u1", S_fitness, DEFAULT_BINARY_ACTIONS)>>
  /\ onboardingData = [u \in User |-> NoData]
  /\ rq = [r \in Req |-> IdleReq]
  /\ dailyLogs = <<>>
  /\ patterns = <<>>
  /\ nightlyLockState = [u \in User |-> 0]
  /\ sessions = [i \in SessionId |-> NoSession]
  /\ received = 0
  /\ scheduledJobs = [u \in User |-> Null]
  /\ cronTasks = <<>>
  /\ wh = [r \in Req |-> IdleHook]
  /\ messages = <<>>
  /\ outbox = <<>>
  /\ photos = <<>>

NextScheduler ==
  \/ \E u \in User, wake_time \in WakeInput, sleep_time \in SleepInput, risk_times \in RiskInput :
        scheduleUserJobs(u, wake_time, sleep_time, risk_times)
  \/ \E u \in User : cancelUserJobs(u)
  \/ \E i \in 1..MaxTasks + 2, ok \in BOOLEAN : cronFires(i, ok)

SpecScheduler == InitScheduler /\ [][NextScheduler]_vars

\* the reminder of one user, re-registered for the sleep times of ReminderClock
NextReminder ==
  \E u \in DailyUser, sleep_time \in ReminderSleepInput : scheduleUserJobs(u, Null, sleep_time, <<>>)

SpecReminder == InitScheduler /\ [][NextReminder]_vars

\* ------------------------------------------------------------ webhook route
\* res.status(200).send('OK') and, in the catch block, res.status(500).send(...)
ResOK == Some([status |-> 200, text |-> "OK"])
ResError == Some([status |-> 500, text |-> "Error processing message"])

\* getCurrentFlow(user) on the user object the request fetched
getCurrentFlow(u) ==
  IF ~users[u].onboarding_complete THEN "onboarding"
  ELSE IF nightlyLockState[u] # 0 THEN "nightly_lock"
  ELSE "general"

BodyInput == {<<"h","i">>, <<"l","o","c","k">>}
\* what handleMessage resolves to; the empty string is falsy and is not sent
ResponseInput == {<<"o","k">>, <<>>}

\* an awaited collaborator throws: the catch block logs and answers 500
Caught(r) ==
  /\ wh' = [wh EXCEPT ![r] = [@ EXCEPT !.pc = "idle", !.res = ResError]]
  /\ UNCHANGED <<messages, outbox>>

\* a request arrives: parseIncomingMessage, then getOrCreateUser is awaited
webhook(r, u, body) ==
  /\ wh[r].pc = "idle" /\ users[u].exists /\ received < MaxMsgs
  /\ received' = received + 1
  /\ wh' = [wh EXCEPT ![r] = [IdleHook EXCEPT !.pc = "getOrCreateUser", !.user = u, !.body = body]]
  /\ UNCHANGED <<users, today, last, tokVars, flowVars, dailyLogs, patterns, nightlyLockState,
                 sessions, schedVars, messages, outbox, photos>>

\* getOrCreateUser resolves with the user's row or the query throws
getOrCreateUser(r, ok) ==
  /\ wh[r].pc = "getOrCreateUser"
  /\ IF ok THEN wh' = [wh EXCEPT ![r].pc = "handleMessage"] /\ UNCHANGED <<messages, outbox>>
     ELSE Caught(r)
  /\ UNCHANGED <<users, today, last, tokVars, flowVars, dayVars, schedVars, photos>>

\* handleMessage resolves with a reply or throws; without a reply the request
\* is acknowledged at once
handleMessage(r, ok, response) ==
  /\ wh[r].pc = "handleMessage"
  /\ IF ~ok THEN Caught(r)
     ELSE /\ wh' = [wh EXCEPT ![r] = IF response # <<>>
                                       THEN [@ EXCEPT !.pc = "sendMessage", !.response = response]
                                       ELSE [@ EXCEPT !.pc = "idle", !.res = ResOK]]
          /\ UNCHANGED <<messages, outbox>>
  /\ UNCHANGED <<users, today, last, tokVars, flowVars, dayVars, schedVars, photos>>

\* sendMessage(user.phone, response): the transport accepts the message, or
\* the error is logged and thrown again
sendMessageSwallowingError(r, ok) ==
  /\ wh[r].pc = "sendMessage"
  /\ wh' = [wh EXCEPT ![r].pc = "recordUser"]
  /\ outbox' = IF ok THEN Append(outbox, [to |-> wh[r].user, body |-> wh[r].response]) ELSE outbox
  /\ UNCHANGED messages
  /\ UNCHANGED <<users, today, last, tokVars, flowVars, dayVars, schedVars, photos>>
sendMessage(r, ok) ==
  /\ wh[r].pc = "sendMessage"
  /\ IF ok THEN /\ wh' = [wh EXCEPT ![r].pc = "recordUser"]
                /\ outbox' = Append(outbox, [to |-> wh[r].user, body |-> wh[r].response])
                /\ UNCHANGED messages
     ELSE Caught(r)
  /\ UNCHANGED <<users, today, last, tokVars, flowVars, dayVars, schedVars, photos>>

\* recordConversation(user, 'user', incoming.body, flow), then
\* recordConversation(user, 'assistant', response, flow): saveMessage INSERTs
\* one row or throws; after the second the request is acknowledged
recordConversation(r, ok) ==
  /\ wh[r].pc \in {"recordUser", "recordAssistant"}
  /\ IF ~ok THEN Caught(r)
     ELSE /\ messages' = Append(messages,
                           [user_id |-> wh[r].user,
                            role |-> IF wh[r].pc = "recordUser" THEN "user" ELSE "assistant",
                            content |-> IF wh[r].pc = "recordUser" THEN wh[r].body ELSE wh[r].response,
                            flow |-> getCurrentFlow(wh[r].user)])
          /\ wh' = [wh EXCEPT ![r] = IF wh[r].pc = "recordUser"
                                       THEN [@ EXCEPT !.pc = "recordAssistant"]
                                       ELSE [@ EXCEPT !.pc = "idle", !.res = ResOK]]
          /\ UNCHANGED outbox
  /\ UNCHANGED <<users, today, last, tokVars, flowVars, dayVars, schedVars, photos>>

InitWebhook ==
  /\ users = [u \in User |->
                IF u \in DailyUser
                  THEN [NewUserRow EXCEPT !.exists = TRUE, !.onboarding_complete = TRUE,
                                          !.onboarding_step = "complete"]
                  ELSE [NewUserRow EXCEPT !.exists = TRUE]]
  /\ today = FirstDay
  /\ last = [op |-> None, user |-> None, replies |-> <<>>]
  /\ tokens = <<>>
  /\ tp = [p \in TokProc |-> IdleProc]
  /\ calls = 0
  /\ contracts = <<>>
  /\ onboardingData = [u \in User |-> NoData]
  /\ rq = [r \in Req |-> IdleReq]
  /\ dailyLogs = <<>>
  /\ patterns = <<>>
  /\ nightlyLockState = [u \in User |-> 0]
  /\ sessions = [i \in SessionId |-> NoSession]
  /\ received = 0
  /\ scheduledJobs = [u \in User |-> Null]
  /\ cronTasks = <<>>
  /\ wh = [r \in Req |-> IdleHook]
  /\ messages = <<>>
  /\ outbox = <<>>
  /\ photos = <<>>

NextWebhook ==
  \/ \E r \in Req, u \in User, body \in BodyInput : webhook(r, u, body)
  \/ \E r \in Req, ok \in BOOLEAN : getOrCreateUser(r, ok)
  \/ \E r \in Req, ok \in BOOLEAN, response \in ResponseInput : handleMessage(r, ok, response)
  \/ \E r \in Req, ok \in BOOLEAN : sendMessage(r, ok)
  \/ \E r \in Req, ok \in BOOLEAN : recordConversation(r, ok)

SpecWebhook == InitWebhook /\ [][NextWebhook]_vars

\* ------------------------------------------------------------------ photos
UrlInput == {"a.jpg", "b.jpg"}

\* a message with a mediaUrl: handleMessage returns handlePhotoMessage(user,
\* mediaUrl), which awaits getBaselinePhoto
handlePhotoMessage(r, u, url) ==
  /\ rq[r].pc = "idle" /\ users[u].exists /\ received < MaxMsgs
  /\ received' = received + 1
  /\ rq' = [rq EXCEPT ![r] = [IdleReq EXCEPT !.pc = "getBaselinePhoto", !.op = "handlePhotoMessage",
                                             !.user = u, !.msg = url]]
  /\ UNCHANGED <<users, today, last, tokVars, contracts, onboardingData, dailyLogs, patterns,
                 nightlyLockState, sessions, schedVars, hookVars, photos>>

\* SELECT * FROM photos WHERE user_id = $1 AND type = 'baseline' ... LIMIT 1:
\* without a row the photo is saved as baseline, otherwise as daily
getBaselinePhoto(r) ==
  /\ rq[r].pc = "getBaselinePhoto"
  /\ rq' = [rq EXCEPT ![r].pc =
              IF \E i \in 1..Len(photos) : photos[i].user_id = rq[r].user /\ photos[i].type = "baseline"
                THEN "savePhotoDaily" ELSE "savePhotoBaseline"]
  /\ UNCHANGED <<users, today, last, tokVars, contracts, onboardingData, dayVars, schedVars, hookVars, photos>>

\* INSERT INTO photos (user_id, type, url, date); created_at defaults to NOW()
savePhoto(r) ==
  /\ rq[r].pc \in {"savePhotoBaseline", "savePhotoDaily"}
  /\ photos' = Append(photos, [user_id |-> rq[r].user,
                               type |-> IF rq[r].pc = "savePhotoBaseline" THEN "baseline" ELSE "daily",
                               url |-> rq[r].msg, date |-> today])
  /\ rq' = [rq EXCEPT ![r] = IdleReq]
  /\ Returned("handlePhotoMessage", rq[r].user,
              IF rq[r].pc = "savePhotoBaseline" THEN "Baseline photo saved." ELSE "Daily photo logged.")
  /\ UNCHANGED <<users, today, tokVars, contracts, onboardingData, dayVars, schedVars, hookVars>>

NextPhotos ==
  \/ \E r \in Req, u \in User, url \in UrlInput : handlePhotoMessage(r, u, url)
  \/ \E r \in Req : getBaselinePhoto(r)
  \/ \E r \in Req : savePhoto(r)
  \/ Tick

SpecPhotos == InitWebhook /\ [][NextPhotos]_vars

\* ------------------------------------------------------ time normalisation
\* normalizeTime: trimmed, lower case, whitespace removed; am/pm noted and
\* stripped; split at ':' with the minutes defaulting to '00'; the hour moved
\* to the 24-hour clock; both parts padded to two characters. NaN prints as
\* 'NaN'
normalizeTimeAddingTwelve(timeStr) ==
  LET lower == ToLowerCase(Trim(timeStr))
      spaceless == SelectSeq(lower, LAMBDA c : ~IsSpace(c))
      isPM == Includes(spaceless, <<"p","m">>)
      isAM == Includes(spaceless, <<"a","m">>)
      parts == Split(WithoutAmPm(spaceless), ":")
      minutes == IF Len(parts) >= 2 THEN parts[2] ELSE <<"0","0">>
      h == parseInt(parts[1])
      h12 == IF isPM /\ h >= 0 THEN h + 12 ELSE h
      hours == IF isAM /\ h12 = 12 THEN 0 ELSE h12
  IN  PadStart2(IF hours < 0 THEN <<"N","a","N">> ELSE NumberText(hours)) \o <<":">> \o PadStart2(minutes)
normalizeTime(timeStr) ==
  LET lower == ToLowerCase(Trim(timeStr))
      spaceless == SelectSeq(lower, LAMBDA c : ~IsSpace(c))
      isPM == Includes(spaceless, <<"p","m">>)
      isAM == Includes(spaceless, <<"a","m">>)
      parts == Split(WithoutAmPm(spaceless), ":")
      minutes == IF Len(parts) >= 2 THEN parts[2] ELSE <<"0","0">>
      h == parseInt(parts[1])
      h12 == IF isPM /\ h >= 0 /\ h < 12 THEN h + 12 ELSE h
      hours == IF isAM /\ h12 = 12 THEN 0 ELSE h12
  IN  PadStart2(IF hours < 0 THEN <<"N","a","N">> ELSE NumberText(hours)) \o <<":">> \o PadStart2(minutes)

\* 12-hour clock times as a user writes them: the hour, optionally ':' and
\* the minutes in one or two digits, optionally a space, am or pm in either case
MinuteInput == {<<>>, <<0, 0>>, <<0, 5>>, <<5>>, <<3, 0>>, <<5, 9>>}
AmPmInput == {<<"a","m">>, <<"p","m">>, <<"A","M">>, <<"P","M">>}
DigitsText(ds) == [k \in 1..Len(ds) |-> NumberText(ds[k])[1]]
TimeText(h, ms, sep, ampm) ==
  NumberText(h) \o (IF ms = <<>> THEN <<>> ELSE <<":">> \o DigitsText(ms)) \o sep \o ampm
TimeInput == {TimeText(h, ms, sep, ampm) :
                h \in 1..12, ms \in MinuteInput, sep \in {<<>>, <<" ">>}, ampm \in AmPmInput}

CallNormalizeTime ==
  /\ last.op = "input"
  /\ last' = [op |-> "normalizeTime", user |-> None,
              replies |-> <<last.replies[1], normalizeTime(last.replies[1])>>]
  /\ UNCHANGED <<users, today, tokVars, flowVars, dayVars, schedVars, hookVars, photos>>

CallParseTime ==
  /\ last.op = "input"
  /\ last' = [op |-> "parseTime", user |-> None,
              replies |-> <<last.replies[1], parseTime(last.replies[1])>>]
  /\ UNCHANGED <<users, today, tokVars, flowVars, dayVars, schedVars, hookVars, photos>>

InitTimes ==
  /\ users = [u \in User |-> NewUserRow]
  /\ today = FirstDay
  /\ \E timeStr \in TimeInput : last = [op |-> "input", user |-> None, replies |-> <<timeStr>>]
  /\ tokens = <<>>
  /\ tp = [p \in TokProc |-> IdleProc]
  /\ calls = 0
  /\ contracts = <<>>
  /\ onboardingData = [u \in User |-> NoData]
  /\ rq = [r \in Req |-> IdleReq]
  /\ dailyLogs = <<>>
  /\ patterns = <<>>
  /\ nightlyLockState = [u \in User |-> 0]
  /\ sessions = [i \in SessionId |-> NoSession]
  /\ received = 0
  /\ scheduledJobs = [u \in User |-> Null]
  /\ cronTasks = <<>>
  /\ wh = [r \in Req |-> IdleHook]
  /\ messages = <<>>
  /\ outbox = <<>>
  /\ photos = <<>>

SpecTimes == InitTimes /\ [][CallNormalizeTime \/ CallParseTime]_vars

\* ---------------------------------------------------------------- downshift
\* bad-day declarations and the shame-escalation decision on one day
NextDownshift ==
  \/ \E r \in Req, u \in DailyUser, m \in DailyMsg : handleBadDay(r, u, m)
  \/ \E r \in Req : patSelect(r) \/ patUpdate(r) \/ patInsert(r)
  \/ \E r \in Req : upsertSelect(r) \/ upsertUpdate(r) \/ upsertInsert(r)
  \/ \E u \in DailyUser : CallDetermineShameEscalation(u)

SpecDownshift == InitDaily /\ [][NextDownshift]_vars

\* ----------------------------------------------------------- weekly report
\* A JavaScript number is an IEEE 754 binary64. A positive one is kept as
\* [m, e]: m its 53 significand bits, most significant first with m[1] = 1,
\* and e the exponent of the last bit, so that the value is m * 2^e
SignificandBits == 53

RECURSIVE BitsValue(_)
BitsValue(bits) ==
  IF bits = <<>> THEN 0
  ELSE 2 * BitsValue(SubSeq(bits, 1, Len(bits) - 1)) + bits[Len(bits)]

Zeros(n) == [k \in 1..n |-> 0]

\* bits + 1: the last 0 becomes 1 and the 1s after it 0
Increment(bits) ==
  LET zero == {k \in 1..Len(bits) : bits[k] = 0}
      p == CHOOSE k \in zero : \A j \in zero : j <= k
  IN  IF zero = {} THEN <<1>> \o Zeros(Len(bits))
      ELSE [k \in 1..Len(bits) |-> IF k < p THEN bits[k] ELSE IF k = p THEN 1 ELSE 0]

\* x + y for bit sequences of one length: the carry into a place comes from a
\* lower place where both have 1, through places where exactly one has
AddBits(x, y) ==
  LET n == Len(x)
      carry(k) == \E j \in k + 1..n :
                     /\ x[j] = 1 /\ y[j] = 1
                     /\ \A i \in k + 1..j - 1 : x[i] + y[i] = 1
      c(k) == IF carry(k) THEN 1 ELSE 0
  IN  (IF c(0) = 1 THEN <<1>> ELSE <<>>) \o [k \in 1..n |-> (x[k] + y[k] + c(k)) % 2]

\* the exact value bits * 2^e (bits[1] = 1, at least 53 bits; sticky: the
\* exact value has more below the last bit) rounded to 53 significand bits,
\* to nearest, ties to even
RoundToEven(bits, e, sticky) ==
  LET kept == SubSeq(bits, 1, SignificandBits)
      dropped == SubSeq(bits, SignificandBits + 1, Len(bits))
      half == dropped # <<>> /\ dropped[1] = 1
      below == sticky \/ \E k \in 2..Len(dropped) : dropped[k] = 1
      up == half /\ (below \/ kept[SignificandBits] = 1)
      raised == IF up THEN Increment(kept) ELSE kept
      exp == e + Len(dropped)
  IN  IF Len(raised) > SignificandBits
        THEN [m |-> SubSeq(raised, 1, SignificandBits), e |-> exp + 1]
        ELSE [m |-> raised, e |-> exp]

\* 2^k and 2^k mod b
RECURSIVE Pow2(_)
Pow2(k) == IF k = 0 THEN 1 ELSE 2 * Pow2(k - 1)
RECURSIVE Pow2Mod(_, _)
Pow2Mod(k, b) ==
  IF k = 0 THEN 1 % b
  ELSE LET h == Pow2Mod(k \div 2, b) IN (h * h * (IF k % 2 = 1 THEN 2 ELSE 1)) % b

\* long division of r by b for r < b: the first n quotient bits after the
\* point (bit i is set when twice the remainder before it reaches b), and the
\* remainder after them
LongDiv(r, b, n) ==
  LET rem(i) == (r * Pow2Mod(i, b)) % b
  IN  [bits |-> [i \in 1..n |-> IF 2 * rem(i - 1) >= b THEN 1 ELSE 0], rem |-> rem(n)]

\* the k with b <= a * 2^k < 2b, for 0 < a <= b
RECURSIVE LeadingShift(_, _)
LeadingShift(a, b) == IF a >= b THEN 0 ELSE 1 + LeadingShift(2 * a, b)

\* a / b for integers 0 < a <= b: the quotient's leading 1 has weight 2^-k;
\* 53 more bits of the long division give the round bit, the remainder the
\* sticky bit
Divide(a, b) ==
  LET k == LeadingShift(a, b)
      q == LongDiv(a * Pow2(k) - b, b, SignificandBits)
  IN  RoundToEven(<<1>> \o q.bits, 0 - (k + SignificandBits), q.rem # 0)

\* x * 100, with 100 = 64 + 32 + 4: the exact product, then rounded
Times100(x) ==
  LET n == SignificandBits + 7
      pad(bits) == Zeros(n - Len(bits)) \o bits
      sum == pad(AddBits(pad(AddBits(pad(x.m \o Zeros(6)), pad(x.m \o Zeros(5)))),
                         pad(x.m \o Zeros(2))))
      lead == CHOOSE k \in 1..Len(sum) : sum[k] = 1 /\ \A j \in 1..k - 1 : sum[j] = 0
  IN  RoundToEven(SubSeq(sum, lead, Len(sum)), x.e, FALSE)

\* Math.round: the nearest integer, a tie towards +Infinity (x < 2^31)
MathRound(x) ==
  LET whole == SignificandBits + x.e   \* how many bits are left of the point
  IN  IF whole < 0 THEN 0
      ELSE BitsValue(SubSeq(x.m, 1, whole)) + x.m[whole + 1]

\* Math.round((totalScored / maxPossible) * 100) for 0 <= totalScored <= maxPossible, 0 < maxPossible
Percentage(totalScored, maxPossible) ==
  IF totalScored = 0 THEN 0 ELSE MathRound(Times100(Divide(totalScored, maxPossible)))

\* the percentages read by the reports of this model, computed once
WeeklyPossible == {TotalPossible(DEFAULT_BINARY_ACTIONS)}
PercentageOf ==
  [q \in UNION {{<<a, b>> : a \in 0..b} : b \in {n * t : n \in 1..DaysPerWeek + 1, t \in WeeklyPossible}}
     |-> Percentage(q[1], q[2])]

\* getWeeklyReport of the user's active contract: the logs of the last days,
\* their sum against logs.length * totalPossible, the locked nights and the
\* actions missed on three logs or more
getWeeklyReport(u) ==
  /\ getActiveContract(u) # {}
  /\ LET contract == contracts[CHOOSE i \in getActiveContract(u) : TRUE]
         logs == getRecentLogs(u, DaysPerWeek)
         totalPossible == TotalPossible(contract.binary_actions)
         totalScored == SumSeq([k \in 1..Len(logs) |-> logs[k].total_score])
         maxPossible == Len(logs) * totalPossible
         missed(name) == Cardinality({k \in 1..Len(logs) :
                            \A e \in logs[k].scores : e.name = name => e.pts = 0})
     IN  Returned("getWeeklyReport", u,
            IF Len(logs) = 0 THEN [message |-> "No data for this week yet."]
            ELSE [message |-> "Weekly Report", totalScored |-> totalScored,
                  maxPossible |-> maxPossible,
                  percentage |-> PercentageOf[<<totalScored, maxPossible>>],
                  lockedCount |-> Cardinality({k \in 1..Len(logs) : logs[k].tomorrow_locked}),
                  logs |-> Len(logs),
                  problemAreas |-> {n \in {contract.binary_actions[i].name : i \in DOMAIN contract.binary_actions} :
                                       missed(n) >= 3}])
  /\ UNCHANGED <<users, today, tokVars, flowVars, dayVars, schedVars, hookVars, photos>>

\* a day of the default template with its first three or four actions done: 5 or 6 of 10 points
WeeklyScoreInput == {3, 4}
InitWeekly ==
  /\ users = [u \in User |->
                IF u \in DailyUser
                  THEN [NewUserRow EXCEPT !.exists = TRUE, !.onboarding_complete = TRUE,
                                          !.onboarding_step = "complete"]
                  ELSE NewUserRow]
  /\ today = FirstDay
  /\ last = [op |-> None, user |-> None, replies |-> <<>>]
  /\ tokens = <<>>
  /\ tp = [p \in TokProc |-> IdleProc]
  /\ calls = 0
  /\ contracts = <<NewContractRow("u1", S_fitness, DEFAULT_BINARY_ACTIONS)>>
  /\ onboardingData = [u \in User |-> NoData]
  /\ rq = [r \in Req |-> IdleReq]
  /\ \E n \in 0..DaysPerWeek + 1 : \E score \in [1..n -> WeeklyScoreInput] :
        dailyLogs = [k \in 1..n |->
                       [NewLogRow("u1", FirstDay - n + k) EXCEPT
                          !.scores = {[name |-> DEFAULT_BINARY_ACTIONS[i].name,
                                       pts |-> DEFAULT_BINARY_ACTIONS[i].points] : i \in 1..score[k]},
                          !.total_score = TotalPossible(SubSeq(DEFAULT_BINARY_ACTIONS, 1, score[k])),
                          !.tomorrow_locked = (k % 2 = 0)]]
  /\ patterns = <<>>
  /\ nightlyLockState = [u \in User |-> 0]
  /\ sessions = [i \in SessionId |-> NoSession]
  /\ received = 0
  /\ scheduledJobs = [u \in User |-> Null]
  /\ cronTasks = <<>>
  /\ wh = [r \in Req |-> IdleHook]
  /\ messages = <<>>
  /\ outbox = <<>>
  /\ photos = <<>>


SpecWeekly == InitWeekly /\ [][\E u \in User : getWeeklyReport(u)]_vars

\* -------------------------------------------------------- sequential runs
\* deductToken(u, reason, amount) on day d run from its SELECT to its UPDATE
\* with nothing in between
Deducted(toks, u, d, reason, amount) ==
  LET ids == {i \in 1..Len(toks) : toks[i].user_id = u /\ toks[i].week_start = WeekStart(d)}
      t1 == IF ids = {} THEN Append(toks, NewTokenRow(u, WeekStart(d))) ELSE toks
      i == IF ids = {} THEN Len(t1) ELSE CHOOSE i \in ids : TRUE
      newAmount == NewAmount(t1[i].current_tokens, amount)
  IN  [t1 EXCEPT ![i].current_tokens = newAmount,
                 ![i].loss_events = Append(@, [date |-> d, reason |-> reason, amount |-> amount]),
                 ![i].punishment_triggered = (newAmount = 0)]

\* checkDailyFailures(user, todayLog, totalPossible) on day d run to completion
\* with nothing in between
DailyFailuresChecked(toks, enabled, u, d, score, possible, locked) ==
  LET scored == IF 2 * score < possible THEN Deducted(toks, u, d, "score", MinorAmount) ELSE toks
  IN  IF ~enabled THEN toks
      ELSE IF ~locked THEN Deducted(scored, u, d, "lock", MajorAmount)
      ELSE scored

\* upsertDailyLog(u, d, upd) run from SELECT to UPDATE / INSERT with nothing in between
Upserted(logs, u, d, upd) ==
  IF LogIds(logs, u, d) # {}
    THEN [i \in DOMAIN logs |->
            IF i \in LogIds(logs, u, d) THEN UpdateLogRow(logs[i], upd) ELSE logs[i]]
    ELSE Append(logs, UpdateLogRow(NewLogRow(u, d), upd))

\* updateScore(user, contract, update) run to completion with nothing in
\* between: getTodayLog reads the row of CURRENT_DATE (current), upsertDailyLog
\* writes the row of the date the process clock gave (written)
ScoreUpdated(logs, u, current, written, actions, update) ==
  LET ids == LogIds(logs, u, current)
      scores == IF ids = {} THEN {} ELSE logs[CHOOSE i \in ids : TRUE].scores
      action == FindAction(actions, update.action)
  IN  IF action = <<>> THEN logs
      ELSE Upserted(logs, u, written, ScoreUpd(scores, Head(action), update.completed))

\* C1: every TokenRecord has 0 <= current_tokens <= starting_tokens and
\* punishment_triggered exactly when current_tokens = 0
TokenRangeAndPunishment ==
  \A i \in 1..Len(tokens) :
     /\ 0 <= tokens[i].current_tokens
     /\ tokens[i].current_tokens <= tokens[i].starting_tokens
     /\ tokens[i].punishment_triggered <=> (tokens[i].current_tokens = 0)

\* a record driven to zero by deductions (punishment triggered)
TokenExhausted ==
  \E i \in 1..Len(tokens) :
     tokens[i].current_tokens = 0 /\ Len(tokens[i].loss_events) >= 4

\* C2 (as claimed): no step, interleaved or not, raises a record's current_tokens
TokensNeverIncrease ==
  [][\A i \in 1..Len(tokens) : tokens'[i].current_tokens <= tokens[i].current_tokens]_vars

\* C3: with loss_aversion_enabled false, processFailure and checkDailyFailures
\* touch no TokenRecord (no call of theirs is in flight for the user, and the
\* records a token query has created for the user hold no deduction) and reply
\* with the empty string / the empty list
DisabledLossAversionIsNoOp ==
  \A u \in User : ~users[u].loss_aversion_enabled =>
     /\ \A i \in 1..Len(tokens) :
           tokens[i].user_id = u => tokens[i] = NewTokenRow(u, tokens[i].week_start)
     /\ \A p \in TokProc : tp[p].user = u => tp[p].op = "resetWeeklyTokens"
     /\ (last.user = u /\ last.op = "processFailure") => last.replies = <<"">>
     /\ (last.user = u /\ last.op = "checkDailyFailures") => last.replies = <<>>

\* checkDailyFailures has returned for a user without loss aversion while the
\* ledger of another user is in use
DisabledUserChecked ==
  /\ last.op = "checkDailyFailures" /\ ~users[last.user].loss_aversion_enabled
  /\ calls >= 2 /\ Len(tokens) > 0

\* ---------------------------------------------------- onboarding properties
ActiveContracts(u) == {i \in 1..Len(contracts) : contracts[i].user_id = u /\ contracts[i].active}

\* C6 (as claimed): a user never has more than one active Contract
AtMostOneActiveContract == \A u \in User : Cardinality(ActiveContracts(u)) <= 1

\* C8: in awaiting_contract_confirm a reply whose trimmed, upper-cased text is
\* not LOCKED ends the request at once and leaves the users table (the step,
\* onboarding_complete) and the contracts table as they were
NonLockedReplyChangesNothing ==
  [][\A r \in Req, u \in User, m \in OnboardingMsg :
       (handleContractConfirm(r, u, m) /\ ToUpperCase(Trim(m)) # S_LOCKED)
          => /\ users' = users
             /\ users[u].onboarding_step = "awaiting_contract_confirm"
             /\ ~users[u].onboarding_complete
             /\ contracts' = contracts
             /\ rq'[r].pc = "idle"]_vars

\* a non-LOCKED reply has been answered and the user still awaits confirmation
\* without any contract
NonLockedReplyAnswered ==
  /\ last.op = "handleContractConfirm" /\ last.replies = <<"what to change?">>
  /\ users[last.user].onboarding_step = "awaiting_contract_confirm"
  /\ ~users[last.user].onboarding_complete
  /\ contracts = <<>>

UpdateScoreIdempotent ==
  \A u \in DailyUser, c \in DOMAIN contracts, completed \in BOOLEAN, written \in {today - 1, today} :
    \A a \in DOMAIN contracts[c].binary_actions :
      LET actions == contracts[c].binary_actions
          update == [action |-> actions[a].name, completed |-> completed]
          once == ScoreUpdated(dailyLogs, u, today, written, actions, update)
      IN  ScoreUpdated(once, u, today, written, actions, update) = once

\* witness: an updateScore has returned, no other request is in flight, and a
\* second updateScore is about to write the values the day's row already holds
UpdateScoreRepeated ==
  \E r \in Req :
    /\ rq[r].pc = "upsertUpdate" /\ rq[r].op = "updateScore"
    /\ last.op = "updateScore" /\ last.replies[1].message[1] = "scored"
    /\ \A r2 \in Req \ {r} : rq[r2].pc = "idle"
    /\ \E i \in LogIds(dailyLogs, rq[r].user, rq[r].date) :
          /\ dailyLogs[i].scores = rq[r].upd.scores /\ dailyLogs[i].scores # {}
          /\ dailyLogs[i].total_score = rq[r].upd.total_score

\* C5: there is at most one DailyLog row per (user, date) in every reachable
\* state, whatever the interleaving of the upsertDailyLog calls of updateScore,
\* the nightly-lock flow and the bad-day flow; a write that finds a row of its
\* key updates that row and adds none
OneLogPerUserDate ==
  /\ [](\A i, j \in DOMAIN dailyLogs :
          dailyLogs[i].user_id = dailyLogs[j].user_id /\ dailyLogs[i].date = dailyLogs[j].date
            => i = j)
  /\ [][\A r \in Req :
          /\ rq[r].pc \in {"upsertUpdate", "upsertInsert"}
          /\ rq'[r].pc # rq[r].pc
          /\ LogIds(dailyLogs, rq[r].user, rq[r].date) # {}
          => /\ Len(dailyLogs') = Len(dailyLogs)
             /\ rq[r].pc = "upsertUpdate" =>
                  \A i \in LogIds(dailyLogs, rq[r].user, rq[r].date) :
                     dailyLogs'[i] = UpdateLogRow(dailyLogs[i], rq[r].upd)]_vars

\* witness: the day's only row was written by nightly scoring and then by the
\* LOCKED confirmation
SecondWriteUpdatedRow ==
  \E u \in DailyUser, i \in DOMAIN dailyLogs :
    /\ dailyLogs[i].user_id = u
    /\ LogIds(dailyLogs, u, dailyLogs[i].date) = {i}
    /\ dailyLogs[i].scores # {} /\ dailyLogs[i].tomorrow_locked
    /\ last.op = "handleConfirm" /\ last.replies[1] = "locked"

\* C7 (as claimed): for every (user, pattern_type, content) there is at most
\* one Pattern row
OnePatternRowPerKey ==
  \A i, j \in DOMAIN patterns :
    /\ patterns[i].user_id = patterns[j].user_id
    /\ patterns[i].pattern_type = patterns[j].pattern_type
    /\ patterns[i].content = patterns[j].content
    => i = j

\* C10 (as claimed): when handleScoring has handled the message "all", the
\* DailyLog of the day holds scores[a] = a.points for every contract action a
\* and total_score = the sum of all action points, and the session is in planning
AllMarksEveryActionComplete ==
  [][\A r \in Req :
       /\ rq[r].op = "handleScoring" /\ ToLowerCase(rq[r].msg) = S_all
       /\ rq[r].pc \in {"upsertUpdate", "upsertInsert"}
       /\ rq'[r].pc = "idle" /\ last'.op = "handleScoring"
       => LET u == rq[r].user
              actions == rq[r].actions
          IN  /\ LogIds(dailyLogs', u, rq[r].date) # {}
              /\ \A i \in LogIds(dailyLogs', u, rq[r].date) :
                    /\ \A a \in DOMAIN actions :
                          [name |-> actions[a].name, pts |-> actions[a].points]
                            \in dailyLogs'[i].scores
                    /\ dailyLogs'[i].total_score = TotalPossible(actions)
              /\ nightlyLockState'[u] # 0
              /\ sessions'[nightlyLockState'[u]].step = "planning"]_vars

\* C11: when handleScoring has handled the message "none", the DailyLog of the
\* day holds a score of 0 for every contract action and total_score = 0, and
\* the session is in miss_reason
NoneMarksEveryActionMissed ==
  [][\A r \in Req :
       /\ rq[r].op = "handleScoring" /\ ToLowerCase(rq[r].msg) = <<"n","o","n","e">>
       /\ rq[r].pc \in {"upsertUpdate", "upsertInsert"}
       /\ rq'[r].pc = "idle" /\ last'.op = "handleScoring"
       => LET u == rq[r].user
              actions == rq[r].actions
          IN  /\ LogIds(dailyLogs', u, rq[r].date) # {}
              /\ \A i \in LogIds(dailyLogs', u, rq[r].date) :
                    /\ \A a \in DOMAIN actions :
                          [name |-> actions[a].name, pts |-> 0] \in dailyLogs'[i].scores
                    /\ \A e \in dailyLogs'[i].scores : e.pts = 0
                    /\ dailyLogs'[i].total_score = 0
              /\ nightlyLockState'[u] # 0
              /\ sessions'[nightlyLockState'[u]].step = "miss_reason"]_vars

\* witness: "none" has been scored: every action of the contract is in the
\* session's missed set, the day's row holds zeros only
NoneScored ==
  \E u \in DailyUser, i \in DOMAIN dailyLogs :
    /\ last.op = "handleScoring" /\ last.replies = <<"nightly_lock_reason">>
    /\ dailyLogs[i].user_id = u /\ dailyLogs[i].date = today
    /\ dailyLogs[i].scores # {} /\ \A e \in dailyLogs[i].scores : e.pts = 0
    /\ dailyLogs[i].total_score = 0
    /\ nightlyLockState[u] # 0
    /\ sessions[nightlyLockState[u]].step = "miss_reason"
    /\ sessions[nightlyLockState[u]].missedItems = NamesOf(contracts[1].binary_actions)

\* C12: in step confirm a LOCKED reply (trimmed, any case) writes
\* tomorrow_locked = true, the plan handlePlanning stored in the session and
\* the session's miss reason to the day's DailyLog and then removes the user's
\* session; any other reply writes nothing, keeps the session and puts it back
\* to planning; so every log with tomorrow_locked holds a tomorrow_plan
ConfirmLocksOrReturnsToPlanning ==
  /\ [](\A i \in DOMAIN dailyLogs :
          dailyLogs[i].tomorrow_locked => dailyLogs[i].tomorrow_plan # Null)
  /\ [][\A r \in Req, u \in DailyUser :
          /\ rq[r].pc = "idle" /\ SessionOf(u).step = "confirm"
          /\ rq'[r] # rq[r] \/ sessions' # sessions
          =>
          \A m \in DailyMsg :
          handleConfirm(r, u, m) =>
            LET state == sessions[nightlyLockState[u]] IN
            IF ToUpperCase(Trim(m)) = S_LOCKED
              THEN /\ rq'[r].op = "handleConfirm" /\ rq'[r].pc = "upsertSelect"
                   /\ rq'[r].date = today
                   /\ rq'[r].upd.tomorrow_plan = state.tomorrowPlan
                   /\ \E m2 \in DailyMsg : state.tomorrowPlan = Some(PlanOf[m2])
                   /\ state.missReason \notin {Null, Some(<<>>)}
                        => rq'[r].upd.miss_reason = state.missReason
                   /\ dailyLogs' = dailyLogs
              ELSE /\ dailyLogs' = dailyLogs /\ patterns' = patterns
                   /\ rq'[r].pc = "idle"
                   /\ nightlyLockState[u] # 0
                   /\ nightlyLockState'[u] = nightlyLockState[u]
                   /\ sessions'[nightlyLockState'[u]] = [state EXCEPT !.step = "planning"]]_vars
  /\ [][\A r \in Req :
          /\ rq[r].op = "handleConfirm"
          /\ rq[r].pc \in {"upsertUpdate", "upsertInsert"}
          /\ rq'[r].pc = "idle" /\ last'.op = "handleConfirm"
          => /\ LogIds(dailyLogs', rq[r].user, rq[r].date) # {}
             /\ \A i \in LogIds(dailyLogs', rq[r].user, rq[r].date) :
                   /\ dailyLogs'[i].tomorrow_locked
                   /\ dailyLogs'[i].tomorrow_plan = rq[r].upd.tomorrow_plan
                   /\ rq[r].upd.miss_reason # Null
                        => dailyLogs'[i].miss_reason = rq[r].upd.miss_reason
             /\ nightlyLockState'[rq[r].user] = 0]_vars

\* witness: after a miss reason and a plan of the user's own, LOCKED has
\* written the plan and the reason to the day's row and removed the session
LockedAfterMissReason ==
  \E u \in DailyUser, i \in DOMAIN dailyLogs :
    /\ last.op = "handleConfirm" /\ last.replies[1] = "locked"
    /\ dailyLogs[i].user_id = u /\ dailyLogs[i].tomorrow_locked
    /\ dailyLogs[i].tomorrow_plan = Some(PlanOf[<<"w","a","l","k"," ","7","a","m">>])
    /\ dailyLogs[i].tomorrow_plan # Some(DefaultPlan)
    /\ dailyLogs[i].miss_reason = Some(<<"r","e","s","e","t">>)
    /\ nightlyLockState[u] = 0

\* C13: while a nightly-lock session of the user is in progress, every message
\* (the command words, bad-day and score phrases included) goes to the
\* Nightly-Lock handler of the session's step: no step is one of
\* startNightlyLock, handleBadDay, the reset command or updateScore, and a
\* request that starts waiting on the database is the step's handler
SessionTakesEveryMessage ==
  /\ [](\A m \in DailyMsg, actions \in DailyActions : Route(m, TRUE, actions) = "nightly")
  /\ [][\A r \in Req, u \in DailyUser :
          /\ rq[r].pc = "idle" /\ nightlyLockState[u] # 0
          /\ rq'[r] # rq[r] \/ last' # last \/ nightlyLockState' # nightlyLockState
          => /\ \A m \in DailyMsg :
                   /\ ~startNightlyLock(r, u, m) /\ ~handleBadDay(r, u, m)
                   /\ ~resetNightlyLock(r, u, m) /\ ~updateScore(r, u, m)
             /\ rq'[r].pc # "idle" /\ rq'[r].user = u
                  => rq'[r].op = CASE SessionOf(u).step = "scoring" -> "handleScoring"
                                   [] SessionOf(u).step = "miss_reason" -> "handleMissReason"
                                   [] SessionOf(u).step = "confirm" -> "handleConfirm"
                                   [] OTHER -> "none"]_vars

\* witness: a bad-day phrase sent in step miss_reason was taken as the miss
\* reason: no bad_day pattern exists and the session went on to planning
BadDayPhraseTakenAsMissReason ==
  \E u \in DailyUser :
    /\ last.op = "handleMissReason" /\ last.user = u
    /\ nightlyLockState[u] # 0
    /\ sessions[nightlyLockState[u]].step = "planning"
    /\ sessions[nightlyLockState[u]].missReason = Some(<<"b","a","d"," ","d","a","y"," ","a","t"," ","9"," ","p","m">>)
    /\ \E i \in DOMAIN patterns :
          patterns[i].pattern_type = "miss_reason" /\ patterns[i].content = <<"b","a","d"," ","d","a","y"," ","a","t"," ","9"," ","p","m">>
    /\ \A i \in DOMAIN patterns : patterns[i].pattern_type # "bad_day"
    /\ \A i \in DOMAIN dailyLogs : dailyLogs[i].notes = Null

\* C14 (as claimed): when the message "reset" of a user with a nightly-lock
\* session in progress has been handled, the user has no nightly-lock session
ResetClearsSession ==
  [][\A r \in Req, u \in DailyUser :
       /\ \/ /\ rq[r].pc = "idle" /\ rq'[r].pc = "idle" /\ nightlyLockState[u] # 0
             /\ \/ handlePlanning(r, u, <<"r","e","s","e","t">>) \/ handleConfirm(r, u, <<"r","e","s","e","t">>)
                \/ resetNightlyLock(r, u, <<"r","e","s","e","t">>)
          \/ /\ rq[r].pc # "idle" /\ rq'[r].pc = "idle" /\ rq[r].user = u
             /\ rq[r].op \in {"handleScoring", "handleMissReason"}
             /\ rq[r].msg = <<"r","e","s","e","t">>
             /\ last'.op = rq[r].op
       => nightlyLockState'[u] = 0]_vars

\* C15: determineShameEscalation returns none whenever the user's shame_level
\* is 0, whatever the logs and the patterns are
ShameDisabledGivesNone ==
  (last.op = "determineShameEscalation" /\ users[last.user].shame_level = 0)
    => last.replies = <<"none">>

\* witness: none was returned for a user with shame_level 0 who has four failed
\* days, the last two in a row, and a miss_reason pattern seen three times
ShameDisabledDespiteFailures ==
  /\ last.op = "determineShameEscalation" /\ users[last.user].shame_level = 0
  /\ last.replies = <<"none">>
  /\ FailedDays(getRecentLogs(last.user, DaysPerWeek)) >= 4
  /\ countConsecutiveFailures(getRecentLogs(last.user, DaysPerWeek)) >= 2
  /\ \E i \in DOMAIN patterns : patterns[i].pattern_type = "miss_reason" /\ patterns[i].frequency = 3

\* C16 (as claimed): with shame_level >= 3 and at least 4 of the recent logs
\* below 5, determineShameEscalation returns tier 3
Tier3HasFirstPriority ==
  (/\ last.op = "determineShameEscalation"
   /\ users[last.user].shame_level >= 3
   /\ FailedDays(getRecentLogs(last.user, DaysPerWeek)) >= 4)
    => last.replies = <<"tier3">>

\* C17 (as claimed): with shame_level >= 2, the tier-3 condition false, and two
\* or more consecutive failures from the newest log or a miss_reason pattern of
\* frequency >= 2, determineShameEscalation returns tier 2
Tier2BeforeTier1 ==
  (/\ last.op = "determineShameEscalation"
   /\ users[last.user].shame_level >= 2
   /\ ~(/\ users[last.user].shame_level >= 3
        /\ FailedDays(getRecentLogs(last.user, DaysPerWeek)) >= 4)
   /\ \/ countConsecutiveFailures(getRecentLogs(last.user, DaysPerWeek)) >= 2
      \/ \E i \in DOMAIN patterns :
            /\ patterns[i].user_id = last.user
            /\ patterns[i].pattern_type = "miss_reason" /\ patterns[i].frequency >= 2)
    => last.replies = <<"tier2">>

\* C18: the token records of different weeks are independent: the INSERT of
\* getOrCreateWeekTokens adds one record of the current week with 7 tokens, no
\* loss events and no punishment and leaves every other record as it is, and a
\* record is changed only by a deduction that read it in that record's week
WeeksAreIndependent ==
  /\ [][\A p \in TokProc :
          (tp[p].pc = "insert" /\ tp'[p] # tp[p] /\ tokens' # tokens)
            => /\ Len(tokens') = Len(tokens) + 1
               /\ SubSeq(tokens', 1, Len(tokens)) = tokens
               /\ tokens'[Len(tokens')] =
                    [user_id |-> tp[p].user, week_start |-> WeekStart(today),
                     starting_tokens |-> StartingTokens, current_tokens |-> StartingTokens,
                     loss_events |-> <<>>, punishment_triggered |-> FALSE]]_vars
  /\ [][\A i \in 1..Len(tokens) :
          tokens'[i] # tokens[i]
            => \E p \in TokProc :
                  /\ tp[p].pc = "update" /\ tp[p].id = i
                  /\ WeekStart(tp[p].evdate) = tokens[i].week_start]_vars
  /\ [](\A p \in TokProc :
          tp[p].pc = "return" => tokens[tp[p].id].week_start = WeekStart(tp[p].evdate))

\* witness: last week's record of the user has lost tokens, this week's record
\* has just been created by a query and holds 7 tokens and no loss events
FreshRecordInNewWeek ==
  \E i, j \in 1..Len(tokens) :
    /\ tokens[i].user_id = tokens[j].user_id
    /\ tokens[i].week_start < tokens[j].week_start
    /\ tokens[i].current_tokens < StartingTokens /\ tokens[i].loss_events # <<>>
    /\ tokens[j].week_start = WeekStart(today)
    /\ tokens[j].current_tokens = StartingTokens /\ tokens[j].loss_events = <<>>
    /\ ~tokens[j].punishment_triggered
    /\ last.op = "resetWeeklyTokens" /\ last.user = tokens[j].user_id

\* C19: for a user with loss aversion enabled checkDailyFailures evaluates two
\* triggers, the score one first: a total_score strictly below half of the
\* total possible deducts 1 token, tomorrow_locked = false deducts 2; run from
\* any reachable ledger, a day with both loses 3 tokens (clamped at 0) and gets
\* the two loss events in that order, a day with neither changes nothing
TwoIndependentTriggers ==
  /\ [](\A u \in User, score \in ScoreInput, possible \in PossibleInput, locked \in BOOLEAN :
          users[u].loss_aversion_enabled =>
            LET low == 2 * score < possible
                lost == (IF low THEN 1 ELSE 0) + (IF locked THEN 0 ELSE 2)
                events == (IF low THEN <<[date |-> today, reason |-> "score", amount |-> 1]>>
                                  ELSE <<>>)
                          \o (IF locked THEN <<>>
                                        ELSE <<[date |-> today, reason |-> "lock", amount |-> 2]>>)
                ids == TokenRowIds(u, today)
                before == IF ids = {} THEN NewTokenRow(u, WeekStart(today))
                          ELSE tokens[CHOOSE i \in ids : TRUE]
                after == DailyFailuresChecked(tokens, TRUE, u, today, score, possible, locked)
            IN  IF lost = 0 THEN after = tokens
                ELSE /\ Len(after) = IF ids = {} THEN Len(tokens) + 1 ELSE Len(tokens)
                     /\ \A i \in 1..Len(tokens) : i \notin ids => after[i] = tokens[i]
                     /\ \A i \in 1..Len(after) :
                          (i \in ids \/ i > Len(tokens)) =>
                            /\ after[i].current_tokens =
                                 IF before.current_tokens >= lost
                                   THEN before.current_tokens - lost ELSE 0
                            /\ after[i].loss_events = before.loss_events \o events
                            /\ after[i].punishment_triggered = (before.current_tokens <= lost))
  /\ [][\A p \in TokProc :
          /\ \A u \in User, score \in ScoreInput, possible \in PossibleInput, locked \in BOOLEAN :
                (CheckDailyFailures(p, u, score, possible, locked) /\ users[u].loss_aversion_enabled)
                  => IF 2 * score < possible
                       THEN tp'[p].pc = "select" /\ tp'[p].reason = "score" /\ tp'[p].amount = 1
                     ELSE IF ~locked
                       THEN tp'[p].pc = "select" /\ tp'[p].reason = "lock" /\ tp'[p].amount = 2
                     ELSE tokens' = tokens /\ tp' = tp /\ last'.replies = <<>>
          /\ (tp[p].op = "checkDailyFailures" /\ tp[p].pc = "update" /\ tp'[p] # tp[p])
                => /\ tokens'[tp[p].id].current_tokens =
                        IF tp[p].current >= tp[p].amount THEN tp[p].current - tp[p].amount ELSE 0
                   /\ tokens'[tp[p].id].loss_events =
                        Append(tp[p].events, [date |-> tp[p].evdate, reason |-> tp[p].reason,
                                              amount |-> tp[p].amount])
                   /\ IF tp[p].reason = "score" /\ ~tp[p].locked
                        THEN tp'[p].pc = "select" /\ tp'[p].reason = "lock" /\ tp'[p].amount = 2
                        ELSE tp'[p].pc = "idle" /\ last'.op = "checkDailyFailures"
                             /\ Len(last'.replies) = IF tp[p].reason = "lock" /\ 2 * tp[p].score < tp[p].possible
                                                       THEN 2 ELSE 1]_vars

\* witness: checkDailyFailures has returned two messages for a day with both
\* failures that took the record from 1 token to 0: its loss events are three
\* pairs of a score loss of 1 and a lock loss of 2
BothTriggersClamped ==
  \E i \in 1..Len(tokens) :
    /\ last.op = "checkDailyFailures" /\ Len(last.replies) = 2
    /\ last.user = tokens[i].user_id
    /\ tokens[i].current_tokens = 0 /\ tokens[i].punishment_triggered
    /\ Len(tokens[i].loss_events) = 6
    /\ \A k \in 1..6 :
          /\ tokens[i].loss_events[k].reason = IF k % 2 = 1 THEN "score" ELSE "lock"
          /\ tokens[i].loss_events[k].amount = IF k % 2 = 1 THEN 1 ELSE 2

\* C20: a scheduleUserJobs call for a user leaves running, for that user,
\* exactly the tasks this call created: one morning task if wake_time is set,
\* one nightly task if sleep_time is set, one risk task per risk time; the
\* tasks and the registered jobs of every other user are untouched
ReRegisteringReplacesJobs ==
  [][\A u \in User, wake_time \in WakeInput, sleep_time \in SleepInput, risk_times \in RiskInput :
       scheduleUserJobs(u, wake_time, sleep_time, risk_times) =>
         LET created == (Len(cronTasks) + 1)..Len(cronTasks')
             running == {i \in 1..Len(cronTasks') : cronTasks'[i].userId = u /\ cronTasks'[i].running}
             Of(callback) == {i \in running : cronTasks'[i].callback = callback}
         IN  /\ running = created
             /\ Cardinality(Of("sendMorningMessage")) = IF wake_time = Null THEN 0 ELSE 1
             /\ Cardinality(Of("sendNightlyReminder")) = IF sleep_time = Null THEN 0 ELSE 1
             /\ Cardinality(Of("sendRiskIntercept")) = Len(risk_times)
             /\ \A i \in 1..Len(cronTasks) : cronTasks[i].userId # u => cronTasks'[i] = cronTasks[i]
             /\ \A v \in User \ {u} : scheduledJobs'[v] = scheduledJobs[v]]_vars

\* C21: the nightly reminder is scheduled two hours before the sleep time,
\* wrapping across midnight: for sleep hour h and minute m the task's cron
\* expression has minute m and hour h - 2, or h + 22 when h < 2, and the job's
\* time is that hour, a colon and the minute padded to two digits
ReminderTwoHoursBeforeSleep ==
  [][\A u \in User, c \in ReminderClock :
       scheduleUserJobs(u, Null, Some(TimeColumn(c[1], c[2])), <<>>) =>
         LET hour == IF c[1] >= 2 THEN c[1] - 2 ELSE c[1] + 22
             i == Len(cronTasks')
         IN  /\ i = Len(cronTasks) + 1
             /\ cronTasks'[i] = [userId |-> u, callback |-> "sendNightlyReminder",
                                 cron |-> <<c[2], hour>>, running |-> TRUE]
             /\ scheduledJobs'[u] # Null /\ Len(scheduledJobs'[u][1]) = 1
             /\ scheduledJobs'[u][1][1].task = i
             /\ scheduledJobs'[u][1][1].type = "nightly"
             /\ scheduledJobs'[u][1][1].time =
                  NumberText(hour) \o <<":">> \o PadStart2(NumberText(c[2]))]_vars

\* witness: a sleep time of 00:00 and then one of 01:30 have been registered:
\* the reminder created for 22:00 is stopped and the one for 23:30 runs
ReminderWrapsAcrossMidnight ==
  /\ \E i \in 1..Len(cronTasks) :
        /\ cronTasks[i].callback = "sendNightlyReminder" /\ cronTasks[i].cron = <<30, 23>>
        /\ cronTasks[i].userId = "u1" /\ cronTasks[i].running
        /\ scheduledJobs["u1"] # Null /\ scheduledJobs["u1"][1][1].task = i
        /\ scheduledJobs["u1"][1][1].time = <<"2","3",":","3","0">>
  /\ \E i \in 1..Len(cronTasks) :
        /\ cronTasks[i].callback = "sendNightlyReminder" /\ cronTasks[i].cron = <<0, 22>>
        /\ cronTasks[i].userId = "u1" /\ ~cronTasks[i].running

\* C22: the webhook answers every request with the same acknowledgment, 200
\* 'OK', whether processing succeeded or a collaborator threw
FixedAcknowledgment ==
  \A r \in Req : wh[r].res # Null => wh[r].res = ResOK

\* C23: the pair (user message, assistant reply) is appended only after the
\* reply has been computed and sent, the user entry first: a row is appended
\* only by a request whose reply the transport has accepted, one row a step,
\* the user row (the inbound body) before the assistant row (the reply); a
\* request whose handleMessage or sendMessage throws appends nothing
PairAppendedAfterSend ==
  /\ [](LET Rows(role, k) == Cardinality({i \in 1..k : messages[i].role = role})
        IN  /\ Rows("user", Len(messages)) <= Len(outbox)
            /\ \A k \in 1..Len(messages) : Rows("assistant", k) <= Rows("user", k)
            /\ \A r \in Req : wh[r].pc \in {"recordUser", "recordAssistant"} =>
                  \E i \in 1..Len(outbox) : outbox[i] = [to |-> wh[r].user, body |-> wh[r].response])
  /\ [][/\ messages' # messages =>
              \E r \in Req :
                 /\ wh[r].pc \in {"recordUser", "recordAssistant"} /\ wh'[r] # wh[r]
                 /\ wh[r].response # <<>>
                 /\ messages' = Append(messages,
                      IF wh[r].pc = "recordUser"
                        THEN [user_id |-> wh[r].user, role |-> "user", content |-> wh[r].body,
                              flow |-> getCurrentFlow(wh[r].user)]
                        ELSE [user_id |-> wh[r].user, role |-> "assistant",
                              content |-> wh[r].response, flow |-> getCurrentFlow(wh[r].user)])
                 /\ wh[r].pc = "recordAssistant" =>
                      \E i \in 1..Len(messages) :
                         messages[i] = [user_id |-> wh[r].user, role |-> "user",
                                        content |-> wh[r].body, flow |-> getCurrentFlow(wh[r].user)]
      /\ \A r \in Req :
            (wh[r].pc \in {"getOrCreateUser", "handleMessage", "sendMessage"} /\ wh'[r] # wh[r])
              => messages' = messages]_vars

\* witness: one request has been answered 200 after its reply was sent and
\* its pair appended, user row first; the other request's send threw: it was
\* answered 500 and the log holds the one pair only
PairLoggedOtherSendThrew ==
  /\ Len(messages) = 2 /\ Len(outbox) = 1
  /\ messages[1].role = "user" /\ messages[2].role = "assistant"
  /\ messages[2].content = outbox[1].body /\ messages[1].user_id = outbox[1].to
  /\ wh["r1"].res = ResOK /\ wh["r1"].response # <<>>
  /\ wh["r2"].res = ResError /\ wh["r2"].response # <<>> /\ wh["r2"].pc = "idle"

\* C24: updateScore with an action name that matches no action of the
\* contract (case-insensitively) returns { newScore: 0, totalPossible: 0,
\* message: 'Unknown action: <name>' } and writes nothing: no step of the call
\* changes a table or a session, also for the names the numeric heuristics of
\* parseScoreUpdate produce
UnknownActionIsNoOp ==
  [][\A r \in Req :
       (/\ rq[r].op = "updateScore" /\ rq'[r] # rq[r]
        /\ \A k \in 1..Len(rq[r].actions) :
              ToLowerCase(rq[r].actions[k].name) # ToLowerCase(rq[r].update[1].action))
         => /\ rq[r].pc = "getTodayLog" /\ rq'[r] = IdleReq
            /\ last' = [op |-> "updateScore", user |-> rq[r].user,
                        replies |-> <<[newScore |-> 0, totalPossible |-> 0,
                                       message |-> <<"Unknown action: ", rq[r].update[1].action>>]>>]
            /\ UNCHANGED <<dailyLogs, patterns, users, contracts, tokens, nightlyLockState, sessions>>]_vars

\* witness: 'did walk' has been scored, then '1800 cal' (calories, which the
\* contract does not have) was answered as unknown and the row is as it was
UnknownCaloriesLeftRow ==
  /\ last.op = "updateScore" /\ last.replies # <<>>
  /\ last.replies[1] = [newScore |-> 0, totalPossible |-> 0,
                        message |-> <<"Unknown action: ", S_calories>>]
  /\ Len(dailyLogs) = 1 /\ dailyLogs[1].total_score > 0
  /\ \A r \in Req : rq[r].pc = "idle"

\* C25: updateScore is a read-modify-write: the scores map it writes is the
\* map getTodayLog read with its own action put, and the UPDATE of
\* upsertDailyLog replaces the stored map and total by these, so an entry
\* another call stored between the read and the write is lost
ScoreWriteReplacesStoredMap ==
  [][\A r \in Req :
       (rq[r].op = "updateScore" /\ rq'[r] # rq[r]) =>
          /\ (rq[r].pc = "getTodayLog" /\ rq'[r].pc = "upsertSelect") =>
                LET ids == LogIds(dailyLogs, rq[r].user, today)
                    read == IF ids = {} THEN {} ELSE dailyLogs[CHOOSE i \in ids : TRUE].scores
                IN  /\ \E e \in rq'[r].upd.scores : rq'[r].upd.scores \ {e} = {n \in read : n.name # e.name}
                    /\ rq'[r].upd.total_score = ScoreSum(rq'[r].upd.scores)
          /\ rq[r].pc = "upsertUpdate" =>
                \A i \in LogIds(dailyLogs, rq[r].user, rq[r].date) :
                   /\ dailyLogs'[i].scores = rq[r].upd.scores
                   /\ dailyLogs'[i].total_score = rq[r].upd.total_score]_vars

\* witness: an updateScore that completed an action has stored it and
\* returned; a concurrent updateScore for a different completed action read
\* the day's log before that and is about to UPDATE the row with a map that
\* holds its own action only
ScoreUpdateAboutToBeLost ==
  \E r \in Req :
    /\ rq[r].op = "updateScore" /\ rq[r].pc = "upsertUpdate" /\ rq[r].update[1].completed
    /\ last.op = "updateScore" /\ last.replies[1].message[1] = "scored" /\ last.replies[1].newScore > 0
    /\ \A r2 \in Req \ {r} : rq[r2].pc = "idle"
    /\ \E i \in LogIds(dailyLogs, rq[r].user, rq[r].date) :
          /\ Cardinality(dailyLogs[i].scores) = 1 /\ Cardinality(rq[r].upd.scores) = 1
          /\ \A e \in dailyLogs[i].scores :
                /\ e.pts > 0 /\ e.name = last.replies[1].message[2]
                /\ \A n \in rq[r].upd.scores : n.name # e.name /\ n.pts > 0
          /\ rq[r].upd.total_score < dailyLogs[i].total_score + ScoreSum(rq[r].upd.scores)

\* C26: a user who has photos has exactly one photo of type baseline, and it
\* is the earliest of the user's photos
OneBaselineTheEarliest ==
  \A u \in User :
     LET mine == {i \in 1..Len(photos) : photos[i].user_id = u}
     IN  mine # {} =>
           /\ Cardinality({i \in mine : photos[i].type = "baseline"}) = 1
           /\ \A i \in mine : photos[i].type = "baseline" <=> \A j \in mine : i <= j

\* C27: an error thrown while a trigger sends its message is caught inside
\* the trigger: the step stops no task and changes no user's registered jobs,
\* sends nothing, and the failing task is still running, so it fires again at
\* its next time
TriggerFailureIsContained ==
  [][\A i \in 1..Len(cronTasks) :
       cronFires(i, FALSE) =>
         /\ cronTasks' = cronTasks /\ scheduledJobs' = scheduledJobs /\ outbox' = outbox
         /\ cronTasks'[i].running
         /\ last' = [op |-> cronTasks[i].callback, user |-> cronTasks[i].userId,
                     replies |-> <<"error logged">>]]_vars

\* witness: a nightly reminder of u1 failed and was logged while u1 and u2
\* both have registered jobs; every registered task is running, and a trigger
\* has sent its message before
TriggerFailedOthersRunning ==
  /\ last = [op |-> "sendNightlyReminder", user |-> "u1", replies |-> <<"error logged">>]
  /\ \A u \in User :
        /\ scheduledJobs[u] # Null /\ Len(scheduledJobs[u][1]) = 2
        /\ \A k \in 1..2 : cronTasks[scheduledJobs[u][1][k].task].running
  /\ outbox # <<>>

\* C28: the percentage of a weekly report is 100 times the sum of the logs'
\* total_score over (number of logs * total possible), rounded to the nearest
\* integer (a half upwards); seven logs that each score half of the total
\* possible give 50
WeeklyPercentageIsRounded ==
  (last.op = "getWeeklyReport" /\ last.replies[1].message = "Weekly Report") =>
     LET rep == last.replies[1]
         logs == getRecentLogs(last.user, DaysPerWeek)
         possible == TotalPossible(contracts[CHOOSE i \in getActiveContract(last.user) : TRUE].binary_actions)
         scored == SumSeq([k \in 1..Len(logs) |-> logs[k].total_score])
     IN  /\ rep.maxPossible = Len(logs) * possible
         /\ rep.totalScored = scored
         /\ rep.percentage = (200 * scored + rep.maxPossible) \div (2 * rep.maxPossible)
         /\ (Len(logs) = DaysPerWeek /\ \A k \in 1..Len(logs) : 2 * logs[k].total_score = possible)
               => rep.percentage = 50

\* C29: the actions stored by handleActionsInput have points by position
\* only: when the message parses to at least one action, there is one stored
\* action per parsed line, in line order, the first two (the only one, when
\* one line is given) with 2 points and every other with 1; when it parses
\* to none, the default template of 8 actions totalling 10 points is stored
PointsByPositionOnly ==
  [][\A r \in Req :
       (rq[r].pc = "idle" /\ rq'[r].pc = "actionsUpdate") =>
          LET lines == SelectSeq(Split(rq'[r].msg, "\n"), LAMBDA l : Trim(l) # <<>>)
              parsed == ParseActionLines(lines)
              stored == onboardingData'[rq'[r].user].binaryActions
          IN  IF parsed = <<>>
                THEN /\ stored = DEFAULT_BINARY_ACTIONS
                     /\ Len(stored) = 8 /\ TotalPossible(stored) = 10
                ELSE /\ Len(stored) = Len(parsed)
                     /\ \A i \in 1..Len(stored) :
                           /\ stored[i].name = parsed[i].name
                           /\ stored[i].points = IF i <= 2 THEN 2 ELSE 1]_vars

\* C30: for a 12-hour clock time with am/pm, hour h in 1..12, normalizeTime
\* gives HH:MM on the 24-hour clock: pm gives h + 12 for h < 12 and 12 for
\* h = 12, am gives h for h < 12 and 00 for h = 12; parseTime gives the same
\* hour and minute for the same input
TwelveHourClockTo24 ==
  \A h \in 1..12, ms \in MinuteInput, sep \in {<<>>, <<" ">>}, ampm \in AmPmInput :
     (last.op \in {"normalizeTime", "parseTime"} /\ last.replies[1] = TimeText(h, ms, sep, ampm)) =>
        LET pm == ampm \in {<<"p","m">>, <<"P","M">>}
            hour == IF pm THEN (IF h < 12 THEN h + 12 ELSE 12) ELSE (IF h < 12 THEN h ELSE 0)
            minute == IF ms = <<>> THEN 0 ELSE IF Len(ms) = 1 THEN ms[1] ELSE 10 * ms[1] + ms[2]
            two(n) == <<NumberText(n \div 10)[1], NumberText(n % 10)[1]>>
        IN  /\ last.op = "normalizeTime" => last.replies[2] = two(hour) \o <<":">> \o two(minute)
            /\ last.op = "parseTime" => last.replies[2] = <<hour, minute>>

\* witness: 12am has been normalised to 00:00
MidnightNormalised ==
  /\ last.op = "normalizeTime"
  /\ last.replies[1] = <<"1","2","a","m">> /\ last.replies[2] = <<"0","0",":","0","0">>

\* C31: onboarding_step only ever moves to its immediate successor in the
\* order start, awaiting_name, awaiting_goal, awaiting_actions,
\* awaiting_times, awaiting_shame_level, awaiting_contract_confirm, complete;
\* it never skips a step or moves backward, and onboarding_complete never
\* returns to false once true
StepMovesToSuccessorOnly ==
  [][\A u \in User :
       LET order == <<"start", "awaiting_name", "awaiting_goal", "awaiting_actions",
                      "awaiting_times", "awaiting_shame_level", "awaiting_contract_confirm",
                      "complete">>
           at(step) == CHOOSE k \in 1..Len(order) : order[k] = step
       IN  /\ users'[u].onboarding_step # users[u].onboarding_step =>
                at(users'[u].onboarding_step) = at(users[u].onboarding_step) + 1
           /\ users[u].onboarding_complete => users'[u].onboarding_complete]_vars

\* C32: a message handled in nightly-lock state miss_reason records its
\* trimmed text exactly once as a miss_reason pattern and leaves the session
\* in planning: a text without a pattern row gets a row of frequency 1, a
\* text that has a row gets no other row and that row's frequency raised by 1
MissReasonRecordedOnce ==
  [][\A r \in Req :
       LET q == rq[r]
           rows == PatternIds(q.user, "miss_reason", Trim(q.msg))
       IN  /\ q.op = "handleMissReason" /\ q.pc \in {"patInsert", "patUpdate"}
           /\ Head(q.pats).pattern_type = "miss_reason"
           /\ rq'[r] # q
           => /\ IF rows = {}
                   THEN patterns' = Append(patterns, NewPatternRow(q.user, "miss_reason", Trim(q.msg)))
                   ELSE \E i \in rows : patterns' = [patterns EXCEPT ![i].frequency = @ + 1]
              /\ rq'[r].pc = "idle" =>
                    /\ last'.op = "handleMissReason"
                    /\ nightlyLockState'[q.user] # 0
                    /\ sessions'[nightlyLockState'[q.user]].step = "planning"]_vars

\* C33: in every reachable state each DailyLog's total_score is the sum of
\* the values of its scores map and is at most the total possible points of
\* the user's contract
TotalScoreIsSumOfScores ==
  \A i \in DOMAIN dailyLogs :
     /\ dailyLogs[i].total_score = ScoreSum(dailyLogs[i].scores)
     /\ \A c \in getActiveContract(dailyLogs[i].user_id) :
           dailyLogs[i].total_score <= TotalPossible(contracts[c].binary_actions)

\* C34: getRecentLogs(user, 7) returns at most 7 logs, also for a user with a
\* log on every day, and a weekly report aggregates at most 7 logs
AtMostSevenRecentLogs ==
  /\ \A u \in User : Len(getRecentLogs(u, DaysPerWeek)) <= DaysPerWeek
  /\ (last.op = "getWeeklyReport" /\ last.replies[1].message = "Weekly Report")
        => last.replies[1].logs <= DaysPerWeek

\* C35: when the session went from scoring directly to planning (no action
\* missed, no miss reason given), the LOCKED confirmation leaves the
\* DailyLog's miss_reason null
NoMissReasonStaysNull ==
  [][\A r \in Req :
       LET q == rq[r]
       IN  /\ q.op = "handleConfirm" /\ q.pc \in {"upsertUpdate", "upsertInsert"}
           /\ sessions[q.sid].missedItems = <<>> /\ sessions[q.sid].missReason = Null
           /\ rq'[r].pc = "idle" /\ last'.op = "handleConfirm"
           => \A i \in LogIds(dailyLogs', q.user, q.date) : dailyLogs'[i].miss_reason = Null]_vars

\* C36: every TokenRecord has current_tokens = max(0, starting_tokens - sum
\* of the amounts of its loss_events), and its loss_events only grows by
\* appending: no step, interleaved or not, drops a recorded loss event
LedgerMatchesLossEvents ==
  [][\A i \in 1..Len(tokens) :
       /\ i <= Len(tokens')
       /\ Len(tokens'[i].loss_events) >= Len(tokens[i].loss_events)
       /\ SubSeq(tokens'[i].loss_events, 1, Len(tokens[i].loss_events)) = tokens[i].loss_events
       /\ tokens'[i].current_tokens =
            Max(0, tokens'[i].starting_tokens
                     - SumSeq([k \in 1..Len(tokens'[i].loss_events) |-> tokens'[i].loss_events[k].amount]))]_vars

\* C37: while a user's nightly-lock session is in miss_reason, planning or
\* confirm, its todayScores are the scores stored in the user's DailyLog of
\* the scored day, and at LOCKED the reported score is that log's total_score
SessionScoresMatchLog ==
  [][/\ \A u \in User :
          LET state == sessions'[nightlyLockState'[u]]
          IN  (nightlyLockState'[u] # 0 /\ state.step \in {"miss_reason", "planning", "confirm"}) =>
                 \E i \in DOMAIN dailyLogs' :
                    /\ dailyLogs'[i].user_id = u
                    /\ state.todayScores = Some(dailyLogs'[i].scores)
     /\ \A r \in Req :
          (rq[r].op = "handleConfirm" /\ rq'[r].pc = "idle" /\ last'.op = "handleConfirm"
             /\ last'.replies[1] = "locked") =>
             \A i \in LogIds(dailyLogs', rq[r].user, rq[r].date) :
                last'.replies[2] = dailyLogs'[i].total_score]_vars

\* C38: within one nightly-lock session the LOCKED confirmation sets
\* tomorrow_locked and the plan on the DailyLog that received the session's
\* scores in the scoring step (the row written holds the session's
\* todayScores), also when the calendar date has changed in between
LockedOnTheScoredLog ==
  [][\A r \in Req :
       (rq[r].op = "handleConfirm" /\ rq'[r].pc = "idle" /\ last'.op = "handleConfirm"
          /\ last'.replies[1] = "locked") =>
          \A i \in DOMAIN dailyLogs' :
             (i \notin DOMAIN dailyLogs \/ dailyLogs'[i] # dailyLogs[i]) =>
                /\ dailyLogs'[i].tomorrow_locked
                /\ dailyLogs'[i].tomorrow_plan = sessions[rq[r].sid].tomorrowPlan
                /\ Some(dailyLogs'[i].scores) = sessions[rq[r].sid].todayScores]_vars

\* C39: the Contract created at onboarding completion holds a goal text that
\* was entered in awaiting_goal and the actions parsed from a message in
\* awaiting_actions (the default template when that message parsed to none),
\* also after a restart of the process between those steps and LOCKED
ContractHoldsEnteredData ==
  [][\A r \in Req :
       (rq[r].pc = "createContract" /\ rq'[r].pc = "completeUpdate") =>
          LET made == contracts'[Len(contracts')]
          IN  /\ Len(contracts') = Len(contracts) + 1
              /\ made.user_id = rq[r].user
              /\ \E m \in OnboardingMsg : made.goal = Trim(m)
              /\ \E m \in OnboardingMsg :
                    made.binary_actions = IF parseBinaryActions(m) # <<>> THEN parseBinaryActions(m)
                                          ELSE DEFAULT_BINARY_ACTIONS]_vars

\* C40: once handleBadDay has marked today's DailyLog as a downshift day,
\* determineShameEscalation returns none for the user on that day; and
\* handleBadDay's write leaves the log's scores, total_score and
\* tomorrow_locked as they were (the column defaults on a new row)
NoShameOnDownshiftDay ==
  [][/\ \A u \in User :
          (/\ last'.op = "determineShameEscalation" /\ last'.user = u /\ dailyLogs' = dailyLogs
           /\ \E i \in LogIds(dailyLogs, u, today) :
                 dailyLogs[i].notes # Null /\ SubSeq(dailyLogs[i].notes[1], 1, 9) = <<"D","O","W","N","S","H","I","F","T">>)
          => last'.replies = <<"none">>
     /\ \A r \in Req :
          (rq[r].op = "handleBadDay" /\ rq[r].pc \in {"upsertUpdate", "upsertInsert"}) =>
             \A i \in LogIds(dailyLogs', rq[r].user, rq[r].date) :
                LET before == IF i \in DOMAIN dailyLogs THEN dailyLogs[i]
                              ELSE NewLogRow(rq[r].user, rq[r].date)
                IN  /\ dailyLogs'[i].scores = before.scores
                    /\ dailyLogs'[i].total_score = before.total_score
                    /\ dailyLogs'[i].tomorrow_locked = before.tomorrow_locked]_vars

====
